---- MODULE Spec2Model ----
(***************************************************************************)
(* Model of conky's X11 window-integration layer (src/output/x11.cc):      *)
(* the display session, the desktop-state cache, the overlay window       *)
(* record, strut reservation and input-event propagation.                 *)
(***************************************************************************)
EXTENDS Integers, Sequences, FiniteSets, TLC

\* ------------------------------------------------------------------------
\* Bounds of the model
\* ------------------------------------------------------------------------
MaxOpens == 2
MaxCard == 2
MaxNamesLen == 3
MaxXcb == 2
MaxCreates == 2
DisplayWidth == 2
DisplayHeight == 2

\* ------------------------------------------------------------------------
\* Program constants
\* ------------------------------------------------------------------------
None == 0
NUL == 0
ByteRange == 256

\* Atom identifiers handed out by the server for the three desktop
\* properties, and one unrelated atom.
A_CURRENT == 101
A_NUMBER == 102
A_NAMES == 103
A_OTHER == 104

A_VROOTS == 105
A_STACKING == 106
A_CLIENTS == 107

DesktopAtoms == {A_CURRENT, A_NUMBER, A_NAMES}

\* Window identifiers: the true root, and the first XID the server hands
\* out to this client.
TrueRoot == 1
FirstXid == 10
\* XA_WINDOW, the predefined atom.
XA_WINDOW == 33
\* The major opcode the server assigned to XInputExtension.
XiOpcode == 131

VARIABLES
  display,        \* Display *display: 0 is nullptr, else the handle
  openDisplays,   \* handles returned by XOpenDisplay and not yet closed
  opens,          \* number of XOpenDisplay calls that succeeded so far
  xcbConns,       \* connections made by xcb_connect (HAVE_XCB_ERRORS)
  build,          \* compile-time configuration of this build
  desktop,        \* info.x11.desktop: current, number, all_names, name
  atoms,          \* statics atom_current, atom_number, atom_names
  srvAtoms,       \* atoms that exist on the server
  coldStarted,    \* get_x11_desktop_info(display, 0) has run
  last,           \* the call made last, its arguments and server replies
  window,         \* struct conky_x11_window window
  workarea,       \* the workarea rectangle
  statics,        \* have_argb_visual, window_created, set_struts' statics
  created,        \* number of windows this client created on the server
  reqs,           \* requests and log lines of the last window or input call
  cfg,            \* configuration settings and the detected window manager
  server          \* what the server reports: extensions, heads, window tree

sessionVars == <<display, openDisplays, opens, xcbConns>>
desktopVars == <<desktop, atoms, coldStarted>>
envVars == <<build, srvAtoms, cfg, server>>
windowVars == <<window, statics, created>>

vars == <<sessionVars, desktopVars, envVars, windowVars, workarea, reqs, last>>

\* ------------------------------------------------------------------------
\* Byte strings
\* ------------------------------------------------------------------------
Chars == {1}
Bytes == {NUL} \cup Chars

RECURSIVE SeqsUpTo(_, _)
SeqsUpTo(S, n) ==
  IF n = 0 THEN {<<>>}
  ELSE LET shorter == SeqsUpTo(S, n - 1)
       IN shorter \cup {Append(s, b) : s \in {t \in shorter : Len(t) = n - 1}, b \in S}

ByteStrings == SeqsUpTo(Bytes, MaxNamesLen)

\* std::string::assign(const char *): the bytes from 0-based offset j up to,
\* not including, the first NUL; the string's own terminator ends it at size.
RECURSIVE CStrFrom(_, _)
CStrFrom(s, j) ==
  IF j >= Len(s) \/ s[j + 1] = NUL THEN <<>>
  ELSE <<s[j + 1]>> \o CStrFrom(s, j + 1)

\* ------------------------------------------------------------------------
\* Replies of XGetWindowProperty
\* ------------------------------------------------------------------------
CardValues == (0 .. MaxCard) \cup {ByteRange}

CardReply(st, ty, fmt, n, v) ==
  [status |-> st, actual_type |-> ty, actual_format |-> fmt, nitems |-> n,
   value |-> v]

GoodCardReplies == {CardReply(0, "CARDINAL", 32, 1, v) : v \in CardValues}

\* The ways a read of a CARDINAL property can miss: the request fails, the
\* property is absent, has another type, another format, or no item.
BadCardReplies ==
  {CardReply(1, "None", 0, 0, 0), CardReply(0, "None", 0, 0, 0),
   CardReply(0, "UTF8_STRING", 8, 0, 0), CardReply(0, "CARDINAL", 8, 1, 1),
   CardReply(0, "CARDINAL", 32, 0, 0)}

CardReplies == GoodCardReplies \cup BadCardReplies

NamesReply(st, ty, fmt, data) ==
  [status |-> st, actual_type |-> ty, actual_format |-> fmt, data |-> data]

GoodNamesReplies ==
  {NamesReply(0, "UTF8_STRING", 8, s) : s \in ByteStrings \ {<<>>}}

BadNamesReplies ==
  {NamesReply(1, "None", 0, <<>>), NamesReply(0, "None", 0, <<>>),
   NamesReply(0, "CARDINAL", 32, <<>>), NamesReply(0, "UTF8_STRING", 32, <<1, NUL>>),
   NamesReply(0, "UTF8_STRING", 8, <<>>)}

NamesReplies == GoodNamesReplies \cup BadNamesReplies

CardReplyOk(r) ==
  r.status = 0 /\ r.actual_type = "CARDINAL" /\ r.nitems = 1 /\ r.actual_format = 32

NamesReplyOk(r) ==
  r.status = 0 /\ r.actual_type = "UTF8_STRING" /\ Len(r.data) > 0 /\ r.actual_format = 8

\* prop is an unsigned char *, so prop[0] is the first byte of the item.
Prop0(v) == v % ByteRange

\* ------------------------------------------------------------------------
\* Desktop-state cache
\* ------------------------------------------------------------------------
\* Variant that forgets to compare the format of the reply.
get_x11_desktop_current_noformat(d, atom, r) ==
  IF atom = None THEN d
  ELSE IF r.status = 0 /\ r.actual_type = "CARDINAL" /\ r.nitems = 1
       THEN [d EXCEPT !.current = Prop0(r.value) + 1]
  ELSE d

get_x11_desktop_current(d, atom, r) ==
  IF atom = None THEN d
  ELSE IF CardReplyOk(r) THEN [d EXCEPT !.current = Prop0(r.value) + 1]
  ELSE d

get_x11_desktop_number(d, atom, r) ==
  IF atom = None THEN d
  ELSE IF CardReplyOk(r) THEN [d EXCEPT !.number = Prop0(r.value)]
  ELSE d

get_x11_desktop_names(d, atom, r) ==
  IF atom = None THEN d
  ELSE IF NamesReplyOk(r) THEN [d EXCEPT !.all_names = r.data]
  ELSE d

\* The scan of get_x11_desktop_current_name: i, j are 0-based offsets, k the
\* number of separators seen.  Yields the offset the name starts at, or -1
\* when the loop ends without assigning.
RECURSIVE NameScan(_, _, _, _, _)
NameScan(names, cur, i, j, k) ==
  IF i >= Len(names) THEN -1
  ELSE IF names[i + 1] = NUL
       THEN IF k + 1 = cur THEN j
            ELSE NameScan(names, cur, i + 1, i + 1, k + 1)
       ELSE NameScan(names, cur, i + 1, j, k)

\* Variant that counts the separators from zero.
get_x11_desktop_current_name_zero_based(d) ==
  LET j == NameScan(d.all_names, d.current + 1, 0, 0, 0)
  IN IF j = -1 THEN d ELSE [d EXCEPT !.name = CStrFrom(d.all_names, j)]

get_x11_desktop_current_name(d) ==
  LET j == NameScan(d.all_names, d.current, 0, 0, 0)
  IN IF j = -1 THEN d ELSE [d EXCEPT !.name = CStrFrom(d.all_names, j)]

\* XInternAtom(display, name, True): the atom only if it already exists.
XInternAtomIfExists(a, existing) == IF a \in existing THEN a ELSE None

\* get_x11_desktop_info as a function of the cache, the statics and the
\* replies the server gives to the reads it makes.
DesktopInfoCold(d, existing, rc, rn, rs) ==
  LET ac == XInternAtomIfExists(A_CURRENT, existing)
      an == XInternAtomIfExists(A_NUMBER, existing)
      as == XInternAtomIfExists(A_NAMES, existing)
      d1 == get_x11_desktop_current(d, ac, rc)
      d2 == get_x11_desktop_number(d1, an, rn)
      d3 == get_x11_desktop_names(d2, as, rs)
  IN [desktop |-> get_x11_desktop_current_name(d3),
      atoms |-> [current |-> ac, number |-> an, names |-> as]]

\* Variant whose index branch also refreshes the count from the same reply.
DesktopInfoChanged_index_refreshes_count(d, at, atom, rc, rn, rs) ==
  IF atom = at.current
  THEN get_x11_desktop_current_name(
         get_x11_desktop_number(get_x11_desktop_current(d, at.current, rc),
                                at.current, rc))
  ELSE IF atom = at.number
  THEN get_x11_desktop_number(d, at.number, rn)
  ELSE IF atom = at.names
  THEN get_x11_desktop_current_name(get_x11_desktop_names(d, at.names, rs))
  ELSE d

DesktopInfoChanged(d, at, atom, rc, rn, rs) ==
  IF atom = at.current
  THEN get_x11_desktop_current_name(get_x11_desktop_current(d, at.current, rc))
  ELSE IF atom = at.number
  THEN get_x11_desktop_number(d, at.number, rn)
  ELSE IF atom = at.names
  THEN get_x11_desktop_current_name(get_x11_desktop_names(d, at.names, rs))
  ELSE d

\* The record of the last call: its name, its argument (the atom passed to
\* get_x11_desktop_info, the display handle init_x11 and deinit_x11 found),
\* for each of the three property reads whether the reply was well-formed,
\* the window type and hints x11_init_window was called with, and for the
\* propagation functions the event and cookie passed, the event as the call
\* left it and the windows found below the pointer.
NoEvent == [type |-> "none"]
NoCookie == [evtype |-> "null"]

LogRecord(op, arg, okc, okn, oks, type, hints, ev, cookie, out, below) ==
  [op |-> op, arg |-> arg, okc |-> okc, okn |-> okn, oks |-> oks,
   type |-> type, hints |-> hints, ev |-> ev, cookie |-> cookie, out |-> out,
   below |-> below]

LogWindow(op, arg, okc, okn, oks, type, hints) ==
  LogRecord(op, arg, okc, okn, oks, type, hints, NoEvent, NoCookie, NoEvent, <<>>)

Log(op, arg, okc, okn, oks) == LogWindow(op, arg, okc, okn, oks, "", {})

LogEvent(op, ev, cookie, out, below) ==
  LogRecord(op, 0, FALSE, FALSE, FALSE, "", {}, ev, cookie, out, below)

LogCall(op) == Log(op, 0, FALSE, FALSE, FALSE)

\* get_x11_desktop_info(display, atom), called by the host on every
\* PropertyNotify of the root window with the atom that changed.
get_x11_desktop_info(atom, rc, rn, rs) ==
  /\ display # None
  /\ IF atom = 0
     THEN LET res == DesktopInfoCold(desktop, srvAtoms, rc, rn, rs)
          IN /\ desktop' = res.desktop
             /\ atoms' = res.atoms
             /\ coldStarted' = TRUE
     ELSE /\ desktop' = DesktopInfoChanged(desktop, atoms, atom, rc, rn, rs)
          /\ UNCHANGED <<atoms, coldStarted>>
  /\ last' = Log("get_x11_desktop_info", atom, CardReplyOk(rc), CardReplyOk(rn),
                 NamesReplyOk(rs))
  /\ UNCHANGED <<sessionVars, envVars, windowVars, workarea, reqs>>

\* ------------------------------------------------------------------------
\* Requests, log lines and rectangles
\* ------------------------------------------------------------------------
\* One entry of reqs: an Xlib request (or a NORM_ERR line) with the window
\* it addresses, the property and mode of a property write, its data and,
\* for event selection and event sending, the mask.
Req(req, win, prop, mode, data, mask) ==
  [req |-> req, win |-> win, prop |-> prop, mode |-> mode, data |-> data,
   mask |-> mask]

NormErr(msg) == Req("NORM_ERR", 0, msg, "", <<>>, {})

ChangeProperty(win, prop, mode, data) ==
  Req("XChangeProperty", win, prop, mode, data, {})

Rect(x, y, w, h) == [x |-> x, y |-> y, w |-> w, h |-> h]
ZeroRect == Rect(0, 0, 0, 0)
FullDisplay == Rect(0, 0, DisplayWidth, DisplayHeight)

\* ------------------------------------------------------------------------
\* Geometry/workarea tracker
\* ------------------------------------------------------------------------
\* Variant without the assignment of the default work area at the start.
update_x11_workarea_no_default ==
  IF ~build.BUILD_XINERAMA THEN [workarea |-> workarea, log |-> <<>>]
  ELSE IF ~server.xinerama.present THEN [workarea |-> workarea, log |-> <<>>]
  ELSE IF ~server.xinerama.active THEN [workarea |-> workarea, log |-> <<>>]
  ELSE IF server.xinerama.null
  THEN [workarea |-> workarea,
        log |-> <<NormErr("XineramaQueryScreen returned nullptr")>>]
  ELSE IF cfg.head_index < 0 \/ cfg.head_index >= Len(server.xinerama.heads)
  THEN [workarea |-> workarea, log |-> <<NormErr("invalid head index")>>]
  ELSE [workarea |-> server.xinerama.heads[cfg.head_index + 1], log |-> <<>>]

\* update_x11_workarea: the workarea it leaves and the lines it logs.
update_x11_workarea ==
  IF ~build.BUILD_XINERAMA THEN [workarea |-> FullDisplay, log |-> <<>>]
  ELSE IF ~server.xinerama.present THEN [workarea |-> FullDisplay, log |-> <<>>]
  ELSE IF ~server.xinerama.active THEN [workarea |-> FullDisplay, log |-> <<>>]
  ELSE IF server.xinerama.null
  THEN [workarea |-> FullDisplay,
        log |-> <<NormErr("XineramaQueryScreen returned nullptr")>>]
  ELSE IF cfg.head_index < 0 \/ cfg.head_index >= Len(server.xinerama.heads)
  THEN [workarea |-> FullDisplay, log |-> <<NormErr("invalid head index")>>]
  ELSE [workarea |-> server.xinerama.heads[cfg.head_index + 1], log |-> <<>>]

\* ------------------------------------------------------------------------
\* Display session
\* ------------------------------------------------------------------------
ResetDesktop == [current |-> 1, number |-> 1, all_names |-> <<>>, name |-> <<>>]

\* Variant that opens a display without testing the handle for nullptr.
init_x11_always_opens(rc, rn, rs) ==
  /\ opens < MaxOpens
  /\ display' = opens + 1
  /\ opens' = opens + 1
  /\ openDisplays' = openDisplays \cup {opens + 1}
  /\ LET res == DesktopInfoCold(ResetDesktop, srvAtoms, rc, rn, rs)
     IN /\ desktop' = res.desktop
        /\ atoms' = res.atoms
  /\ coldStarted' = TRUE
  /\ xcbConns' = IF build.HAVE_XCB_ERRORS /\ xcbConns < MaxXcb
                 THEN xcbConns + 1 ELSE xcbConns
  /\ LET wa == update_x11_workarea
     IN workarea' = wa.workarea /\ reqs' = wa.log
  /\ last' = Log("init_x11", display, CardReplyOk(rc), CardReplyOk(rn),
                 NamesReplyOk(rs))
  /\ UNCHANGED <<envVars, windowVars>>

\* init_x11 when XOpenDisplay succeeds or the display is already open.
init_x11(rc, rn, rs) ==
  /\ display # None \/ opens < MaxOpens
  /\ IF display = None
     THEN /\ display' = opens + 1
          /\ opens' = opens + 1
          /\ openDisplays' = openDisplays \cup {opens + 1}
     ELSE UNCHANGED <<display, opens, openDisplays>>
  /\ LET res == DesktopInfoCold(ResetDesktop, srvAtoms, rc, rn, rs)
     IN /\ desktop' = res.desktop
        /\ atoms' = res.atoms
  /\ coldStarted' = TRUE
  /\ xcbConns' = IF build.HAVE_XCB_ERRORS /\ xcbConns < MaxXcb
                 THEN xcbConns + 1 ELSE xcbConns
  /\ LET wa == update_x11_workarea
     IN workarea' = wa.workarea /\ reqs' = wa.log
  /\ last' = Log("init_x11", display, CardReplyOk(rc), CardReplyOk(rn),
                 NamesReplyOk(rs))
  /\ UNCHANGED <<envVars, windowVars>>

\* init_x11 when XOpenDisplay returns nullptr: it throws (or, in a Wayland
\* build, logs and returns) before touching anything else.
init_x11_fail ==
  /\ display = None
  /\ last' = LogCall("init_x11_fail")
  /\ UNCHANGED <<sessionVars, desktopVars, envVars, windowVars, workarea, reqs>>

deinit_x11 ==
  /\ IF display # None
     THEN /\ openDisplays' = openDisplays \ {display}
          /\ display' = None
     ELSE UNCHANGED <<display, openDisplays>>
  /\ last' = Log("deinit_x11", display, FALSE, FALSE, FALSE)
  /\ UNCHANGED <<opens, xcbConns, desktopVars, envVars, windowVars, workarea, reqs>>

\* Another client interns one of the desktop atoms on the server.
ServerInternAtom(a) ==
  /\ a \notin srvAtoms
  /\ srvAtoms' = srvAtoms \cup {a}
  /\ last' = Log("ServerInternAtom", a, FALSE, FALSE, FALSE)
  /\ UNCHANGED <<sessionVars, desktopVars, build, cfg, server, windowVars,
                 workarea, reqs>>

\* update_x11_workarea() called by the host on its own.
UpdateWorkarea ==
  /\ display # None
  /\ LET wa == update_x11_workarea
     IN workarea' = wa.workarea /\ reqs' = wa.log
  /\ last' = LogCall("update_x11_workarea")
  /\ UNCHANGED <<sessionVars, desktopVars, envVars, windowVars>>

\* ------------------------------------------------------------------------
\* Desktop/virtual-root resolver
\* ------------------------------------------------------------------------
WindowListReply(st, fmt, data) ==
  [status |-> st, actual_format |-> fmt, data |-> data]

\* x11_atom_window_list: the windows of a WINDOW-list property.
x11_atom_window_list(r) ==
  IF r.status = 0 /\ r.actual_format = XA_WINDOW /\ Len(r.data) > 0
  THEN r.data ELSE <<>>

\* VRootWindowOfScreen: the windows it can return, given the reply to the
\* virtual-root list read and to the current-desktop read.  When that last
\* read returns no data the index dereferenced is indeterminate.
VRootWindowOfScreen(rv, rc) ==
  IF XInternAtomIfExists(A_VROOTS, srvAtoms) = None THEN {TrueRoot}
  ELSE LET vroots == x11_atom_window_list(rv)
       IN IF vroots = <<>> THEN {TrueRoot}
          ELSE IF XInternAtomIfExists(A_CURRENT, srvAtoms) = None THEN {TrueRoot}
          ELSE IF rc.status = 0 /\ rc.nitems > 0
               THEN {IF Len(vroots) > rc.value THEN vroots[rc.value + 1] ELSE TrueRoot}
               ELSE {TrueRoot} \cup {vroots[i] : i \in 1 .. Len(vroots)}

\* The first child of win, in enumeration order, that is viewable, not
\* override-redirect and exactly w by h; 0 when there is none.
RECURSIVE FirstMatch(_, _, _, _)
FirstMatch(kids, j, w, h) ==
  IF j > Len(kids) THEN 0
  ELSE LET a == server.tree[kids[j]]
       IN IF a.viewable /\ ~a.override_redirect /\ a.w = w /\ a.h = h
          THEN kids[j] ELSE FirstMatch(kids, j + 1, w, h)

\* Variant whose loop runs once more.
RECURSIVE find_desktop_window_impl_eleven(_, _, _, _)
find_desktop_window_impl_eleven(win, w, h, i) ==
  IF i >= 11 THEN win
  ELSE LET m == FirstMatch(server.tree[win].children, 1, w, h)
       IN IF m = 0 THEN win ELSE find_desktop_window_impl_eleven(m, w, h, i + 1)

RECURSIVE find_desktop_window_impl(_, _, _, _)
find_desktop_window_impl(win, w, h, i) ==
  IF i >= 10 THEN win
  ELSE LET m == FirstMatch(server.tree[win].children, 1, w, h)
       IN IF m = 0 THEN win ELSE find_desktop_window_impl(m, w, h, i + 1)

\* A call of find_desktop_window_impl(win, w, h) on the open display; the
\* record keeps the window returned and, as its list, the arguments.
FindDesktopWindowImpl(win, w, h) ==
  /\ display # None
  /\ win \in DOMAIN server.tree
  /\ last' = LogRecord("find_desktop_window_impl",
                       find_desktop_window_impl(win, w, h, 0), FALSE, FALSE, FALSE,
                       "", {}, NoEvent, NoCookie, NoEvent, <<win, w, h>>)
  /\ reqs' = <<>>
  /\ UNCHANGED <<sessionVars, desktopVars, envVars, windowVars, workarea>>

\* Variant that searches with the work area of the previous call and
\* updates it afterwards.
find_desktop_window_stale_workarea(root) ==
  LET d1 == find_desktop_window_impl(root, DisplayWidth, DisplayHeight, 0)
      wa == update_x11_workarea
      d2 == find_desktop_window_impl(d1, workarea.w, workarea.h, 0)
  IN [desktop |-> d2, workarea |-> wa.workarea,
      log |-> wa.log \o <<NormErr(IF d2 # root THEN "desktop window is subwindow of root window"
                                  ELSE "desktop window is root window")>>]

\* find_desktop_window: the desktop it returns, the workarea it leaves and
\* the lines it logs.
find_desktop_window(root) ==
  LET d1 == find_desktop_window_impl(root, DisplayWidth, DisplayHeight, 0)
      wa == update_x11_workarea
      d2 == find_desktop_window_impl(d1, wa.workarea.w, wa.workarea.h, 0)
  IN [desktop |-> d2, workarea |-> wa.workarea,
      log |-> wa.log \o <<NormErr(IF d2 # root THEN "desktop window is subwindow of root window"
                                  ELSE "desktop window is root window")>>]

\* ------------------------------------------------------------------------
\* Overlay window manager
\* ------------------------------------------------------------------------
\* The window record as the loader, and memset in destroy_window, leave it.
ZeroWindow ==
  [window |-> 0, root |-> 0, desktop |-> 0, drawable |-> 0, gc |-> 0,
   xftdraw |-> 0, geometry |-> ZeroRect, event_mask |-> {}, xi_opcode |-> 0]

WindowTypes == {"DESKTOP", "DOCK", "PANEL", "UTILITY", "NORMAL", "OVERRIDE"}
Hints == {"UNDECORATED", "BELOW", "ABOVE", "STICKY", "SKIP_TASKBAR", "SKIP_PAGER"}

\* Atoms written as property values.
NET_WM_STATE_BELOW == 201
NET_WM_STATE_ABOVE == 202
NET_WM_STATE_STICKY == 203
NET_WM_STATE_SKIP_TASKBAR == 204
NET_WM_STATE_SKIP_PAGER == 205
NET_WM_WINDOW_TYPE_DESKTOP == 301
NET_WM_WINDOW_TYPE_DOCK == 302
NET_WM_WINDOW_TYPE_UTILITY == 303
NET_WM_WINDOW_TYPE_NORMAL == 304
\* 0xFFFFFFFF, the all-desktops value of _NET_WM_DESKTOP, as the 32-bit
\* two's complement number with that bit pattern.
AllDesktops == -1
NormalState == 1
WithdrawnState == 0

\* The property writes of one hint block of x11_init_window.
HintWrites(w, hint) ==
  CASE hint = "UNDECORATED" ->
         <<ChangeProperty(w, "_MOTIF_WM_HINTS", "Replace", <<2, 0, 0, 0, 0>>)>>
    [] hint = "BELOW" ->
         <<ChangeProperty(w, "_WIN_LAYER", "Append", <<0>>),
           ChangeProperty(w, "_NET_WM_STATE", "Append", <<NET_WM_STATE_BELOW>>)>>
    [] hint = "ABOVE" ->
         <<ChangeProperty(w, "_WIN_LAYER", "Append", <<6>>),
           ChangeProperty(w, "_NET_WM_STATE", "Append", <<NET_WM_STATE_ABOVE>>)>>
    [] hint = "STICKY" ->
         <<ChangeProperty(w, "_NET_WM_DESKTOP", "Append", <<AllDesktops>>),
           ChangeProperty(w, "_NET_WM_STATE", "Append", <<NET_WM_STATE_STICKY>>)>>
    [] hint = "SKIP_TASKBAR" ->
         <<ChangeProperty(w, "_NET_WM_STATE", "Append", <<NET_WM_STATE_SKIP_TASKBAR>>)>>
    [] hint = "SKIP_PAGER" ->
         <<ChangeProperty(w, "_NET_WM_STATE", "Append", <<NET_WM_STATE_SKIP_PAGER>>)>>

\* The order in which x11_init_window tests the hints.
HintOrder ==
  <<"UNDECORATED", "BELOW", "ABOVE", "STICKY", "SKIP_TASKBAR", "SKIP_PAGER">>

\* Variant in which the blocks form an else-if chain: only the first hint
\* that is set is applied.
RECURSIVE ApplyHints_first_only(_, _, _)
ApplyHints_first_only(w, hints, order) ==
  IF order = <<>> THEN <<>>
  ELSE IF Head(order) \in hints THEN HintWrites(w, Head(order))
  ELSE ApplyHints_first_only(w, hints, Tail(order))

\* The writes of the hint blocks taken in the given order, for the hints set.
RECURSIVE ApplyHints(_, _, _)
ApplyHints(w, hints, order) ==
  IF order = <<>> THEN <<>>
  ELSE (IF Head(order) \in hints THEN HintWrites(w, Head(order)) ELSE <<>>)
       \o ApplyHints(w, hints, Tail(order))

WindowTypeAtom(type) ==
  CASE type = "DESKTOP" -> NET_WM_WINDOW_TYPE_DESKTOP
    [] type = "DOCK" -> NET_WM_WINDOW_TYPE_DOCK
    [] type = "PANEL" -> NET_WM_WINDOW_TYPE_DOCK
    [] type = "UTILITY" -> NET_WM_WINDOW_TYPE_UTILITY
    [] OTHER -> NET_WM_WINDOW_TYPE_NORMAL

Bit(b) == IF b THEN 1 ELSE 0

\* Variant that creates the override window under the true root.
OverrideRequests_under_root(w, desk, geo, b) ==
  <<Req("XCreateWindow", w, "", "", <<TrueRoot, geo.x, geo.y, b, b, 1>>,
        {"StructureNotify", "Exposure"}),
    Req("XLowerWindow", w, "", "", <<>>, {}),
    ChangeProperty(w, "WM_CLASS", "Replace", <<>>),
    NormErr("window type - override")>>

\* The own-window branch for type OVERRIDE: requests issued for window w.
OverrideRequests(w, desk, geo, b) ==
  <<Req("XCreateWindow", w, "", "", <<desk, geo.x, geo.y, b, b, 1>>,
        {"StructureNotify", "Exposure"}),
    Req("XLowerWindow", w, "", "", <<>>, {}),
    ChangeProperty(w, "WM_CLASS", "Replace", <<>>),
    NormErr("window type - override")>>

\* The own-window branch for the managed types.
ManagedRequests(w, root, geo, b, type, hints, own_window) ==
  LET undecorated == "UNDECORATED" \in hints
      shape ==
        (IF build.BUILD_XSHAPE /\ build.BUILD_XFIXES /\ type = "UTILITY"
         THEN <<Req("XFixesSetWindowShapeRegion", w, "", "", <<>>, {})>> ELSE <<>>)
        \o (IF build.BUILD_XSHAPE /\ undecorated
            THEN IF ~server.xshape
                 THEN <<NormErr("Input shapes are not supported")>>
                 ELSE IF own_window /\ (type # "NORMAL" \/ undecorated)
                      THEN <<Req("XShapeCombineRectangles", w, "", "", <<>>, {})>>
                      ELSE <<>>
            ELSE <<>>)
      initial == IF type \in {"DOCK", "PANEL"} /\ cfg.wm = "fluxbox"
                 THEN WithdrawnState ELSE NormalState
  IN <<Req("XCreateWindow", w, "", "", <<root, geo.x, geo.y, b, b, Bit(type = "UTILITY")>>,
           {"StructureNotify", "Exposure", "ButtonPress", "ButtonRelease"})>>
     \o shape
     \o <<ChangeProperty(w, "WM_HINTS", "Replace", <<Bit(~undecorated), initial>>),
          ChangeProperty(w, "WM_CLASS", "Replace", <<>>),
          ChangeProperty(w, "WM_NAME", "Replace", <<>>),
          ChangeProperty(w, "WM_PROTOCOLS", "Replace", <<>>),
          NormErr("window type"),
          ChangeProperty(w, "_NET_WM_WINDOW_TYPE", "Replace", <<WindowTypeAtom(type)>>)>>
     \o ApplyHints(w, hints, HintOrder)

\* Variant in which the core pointer events are selected whether or not the
\* XInput set-up succeeded.
InputSetup_always_fallback(w, root, own, own_window, type) ==
  LET base == {"Exposure", "PropertyChange"}
              \cup (IF own_window THEN {"StructureNotify"} ELSE {})
              \cup (IF own_window /\ ~build.BUILD_XINPUT
                    THEN {"ButtonPress", "ButtonRelease"} ELSE {})
      tracked == build.BUILD_MOUSE_EVENTS \/ build.BUILD_XINPUT
      xi_ok == build.BUILD_XINPUT /\ server.xi = "ok"
      rootmask == {"XI_HierarchyChanged"}
                  \cup (IF build.BUILD_MOUSE_EVENTS THEN {"XI_Motion"} ELSE {})
                  \cup (IF ~own THEN {"XI_ButtonPress", "XI_ButtonRelease"} ELSE {})
      winmask == (rootmask \ {"XI_Motion"}) \cup {"XI_ButtonPress", "XI_ButtonRelease"}
      xireqs ==
        IF ~build.BUILD_XINPUT THEN <<>>
        ELSE IF server.xi = "absent"
        THEN <<NormErr("XInput extension is not supported by X11!")>>
        ELSE IF server.xi = "old"
        THEN <<NormErr("Error: XInput 2.0 is not supported!")>>
        ELSE <<Req("XISelectEvents", root, "", "", <<>>, rootmask)>>
             \o (IF own THEN <<Req("XISelectEvents", w, "", "", <<>>, winmask)>> ELSE <<>>)
             \o <<Req("device_info::from_xi_id", 0, "", "", <<>>, {})>>
      mask == base \cup (IF tracked /\ build.BUILD_MOUSE_EVENTS /\ own
                            /\ type # "DESKTOP"
                         THEN {"PointerMotion", "EnterWindow", "LeaveWindow"} ELSE {})
  IN [mask |-> mask,
      reqs |-> xireqs \o <<Req("XSelectInput", w, "", "", <<>>, mask)>>,
      xi_opcode |-> IF ~build.BUILD_XINPUT THEN window.xi_opcode
                    ELSE IF server.xi = "absent" THEN 0 ELSE XiOpcode]

\* Input set-up at the end of x11_init_window: the core event mask, the
\* requests of the XInput set-up and whether it succeeded.
InputSetup(w, root, own, own_window, type) ==
  LET base == {"Exposure", "PropertyChange"}
              \cup (IF own_window THEN {"StructureNotify"} ELSE {})
              \cup (IF own_window /\ ~build.BUILD_XINPUT
                    THEN {"ButtonPress", "ButtonRelease"} ELSE {})
      tracked == build.BUILD_MOUSE_EVENTS \/ build.BUILD_XINPUT
      xi_ok == build.BUILD_XINPUT /\ server.xi = "ok"
      rootmask == {"XI_HierarchyChanged"}
                  \cup (IF build.BUILD_MOUSE_EVENTS THEN {"XI_Motion"} ELSE {})
                  \cup (IF ~own THEN {"XI_ButtonPress", "XI_ButtonRelease"} ELSE {})
      winmask == (rootmask \ {"XI_Motion"}) \cup {"XI_ButtonPress", "XI_ButtonRelease"}
      xireqs ==
        IF ~build.BUILD_XINPUT THEN <<>>
        ELSE IF server.xi = "absent"
        THEN <<NormErr("XInput extension is not supported by X11!")>>
        ELSE IF server.xi = "old"
        THEN <<NormErr("Error: XInput 2.0 is not supported!")>>
        ELSE <<Req("XISelectEvents", root, "", "", <<>>, rootmask)>>
             \o (IF own THEN <<Req("XISelectEvents", w, "", "", <<>>, winmask)>> ELSE <<>>)
             \o <<Req("device_info::from_xi_id", 0, "", "", <<>>, {})>>
      mask == base \cup (IF tracked /\ build.BUILD_MOUSE_EVENTS /\ ~xi_ok /\ own
                            /\ type # "DESKTOP"
                         THEN {"PointerMotion", "EnterWindow", "LeaveWindow"} ELSE {})
  IN [mask |-> mask,
      reqs |-> xireqs \o <<Req("XSelectInput", w, "", "", <<>>, mask)>>,
      xi_opcode |-> IF ~build.BUILD_XINPUT THEN window.xi_opcode
                    ELSE IF server.xi = "absent" THEN 0 ELSE XiOpcode]

\* x11_init_window(l, own) with the settings own_window_type, own_window_hints
\* and own_window, and the replies rv, rc to the virtual-root reads.
x11_init_window(own, own_window, type, hints, rv, rc) ==
  /\ display # None
  /\ ~own \/ created < MaxCreates
  /\ \E root \in VRootWindowOfScreen(rv, rc) :
       IF root = None
       THEN /\ window' = [window EXCEPT !.root = root]
            /\ reqs' = <<>>
            /\ UNCHANGED <<statics, created, workarea>>
       ELSE
         LET fd == find_desktop_window(root)
             argb == own /\ build.BUILD_ARGB /\ cfg.use_argb /\ server.argb
             b == IF cfg.border = 0 THEN 1 ELSE cfg.border
             xid == FirstXid + created
             geo == IF own /\ type = "DOCK"
                    THEN [window.geometry EXCEPT !.x = 0, !.y = 0]
                    ELSE IF ~own
                    THEN LET tgt == IF window.window = None THEN fd.desktop
                                    ELSE window.window
                         IN IF tgt \in DOMAIN server.tree
                            THEN [window.geometry EXCEPT !.w = server.tree[tgt].w,
                                                         !.h = server.tree[tgt].h]
                            ELSE window.geometry
                    ELSE window.geometry
             win == IF own THEN xid
                    ELSE IF window.window = None THEN fd.desktop ELSE window.window
             ownreqs ==
               IF ~own THEN <<NormErr("drawing to desktop window")>>
               ELSE (IF type = "OVERRIDE"
                     THEN OverrideRequests(xid, fd.desktop, geo, b)
                     ELSE ManagedRequests(xid, root, geo, b, type, hints, own_window))
                    \o <<NormErr("drawing to created window"),
                         Req("XMapWindow", xid, "", "", <<>>, {})>>
             inp == InputSetup(win, root, own, own_window, type)
         IN /\ window' = [window EXCEPT !.root = root, !.desktop = fd.desktop,
                                        !.window = win, !.drawable = win,
                                        !.geometry = geo, !.event_mask = inp.mask,
                                        !.xi_opcode = inp.xi_opcode]
            /\ workarea' = fd.workarea
            /\ statics' = [statics EXCEPT
                             !.have_argb_visual = statics.have_argb_visual \/ argb,
                             !.window_created = 1]
            /\ created' = IF own THEN created + 1 ELSE created
            /\ reqs' = fd.log \o ownreqs \o <<Req("XFlush", 0, "", "", <<>>, {})>>
                        \o inp.reqs
  /\ last' = LogWindow("x11_init_window", Bit(own), own_window, FALSE, FALSE,
                       type, hints)
  /\ UNCHANGED <<sessionVars, desktopVars, envVars>>

\* create_gc: a graphics context for the drawable.
create_gc ==
  /\ display # None
  /\ window.drawable # None
  /\ window' = [window EXCEPT !.gc = 1]
  /\ reqs' = <<Req("XCreateGC", window.drawable, "", "", <<>>, {})>>
  /\ last' = LogCall("create_gc")
  /\ UNCHANGED <<sessionVars, desktopVars, envVars, statics, created, workarea>>

\* Variant that zeroes the record without freeing the graphics context.
destroy_window_keeps_gc ==
  /\ display # None \/ (window.gc = 0 /\ window.xftdraw = 0)
  /\ reqs' = (IF window.xftdraw # 0
              THEN <<Req("XftDrawDestroy", window.xftdraw, "", "", <<>>, {})>> ELSE <<>>)
  /\ window' = ZeroWindow
  /\ last' = LogCall("destroy_window")
  /\ UNCHANGED <<sessionVars, desktopVars, envVars, statics, created, workarea>>

\* destroy_window; freeing a graphics context needs the display.
destroy_window ==
  /\ display # None \/ (window.gc = 0 /\ window.xftdraw = 0)
  /\ reqs' = (IF window.xftdraw # 0
              THEN <<Req("XftDrawDestroy", window.xftdraw, "", "", <<>>, {})>> ELSE <<>>)
             \o (IF window.gc # 0
                 THEN <<Req("XFreeGC", window.gc, "", "", <<>>, {})>> ELSE <<>>)
  /\ window' = ZeroWindow
  /\ last' = LogCall("destroy_window")
  /\ UNCHANGED <<sessionVars, desktopVars, envVars, statics, created, workarea>>

\* The host stores the overlay geometry (from the settings, and from every
\* ConfigureNotify) in window.geometry.
HostSetGeometry(g) ==
  /\ window' = [window EXCEPT !.geometry = g]
  /\ reqs' = <<>>
  /\ last' = LogCall("HostSetGeometry")
  /\ UNCHANGED <<sessionVars, desktopVars, envVars, statics, created, workarea>>

\* ------------------------------------------------------------------------
\* Strut reservation
\* ------------------------------------------------------------------------
WindowManagers == {"compiz", "fluxbox", "i3", "kwin", "enlightenment", "other"}
Alignments ==
  {"TOP_LEFT", "TOP_MIDDLE", "TOP_RIGHT", "MIDDLE_LEFT", "MIDDLE_MIDDLE",
   "MIDDLE_RIGHT", "BOTTOM_LEFT", "BOTTOM_MIDDLE", "BOTTOM_RIGHT", "NONE"}

\* (*align & 0b0101) == 0: neither axis of the alignment is a start or end.
AlignHasNoEdge(align) == align \in {"MIDDLE_MIDDLE", "NONE"}

EndX(g) == g.x + g.w
EndY(g) == g.y + g.h

\* std::clamp
Clamp(v, lo, hi) == IF v < lo THEN lo ELSE IF hi < v THEN hi ELSE v

\* Slots of the strut array, 1-based: LEFT, RIGHT, TOP, BOTTOM,
\* LEFT_START_Y, LEFT_END_Y, RIGHT_START_Y, RIGHT_END_Y, TOP_START_X,
\* TOP_END_X, BOTTOM_START_X, BOTTOM_END_X.
StrutCount == 12
\* x11_strut::array(): all slots zero.
StrutArray == [i \in 1 .. StrutCount |-> 0]

StrutLeft(g) ==
  [StrutArray EXCEPT ![1] = Clamp(EndX(g), 0, DisplayWidth),
                     ![5] = Clamp(g.y, 0, DisplayHeight),
                     ![6] = Clamp(EndY(g), 0, DisplayHeight)]

\* Variant that subtracts the unclamped x.
StrutRight_unclamped(g) ==
  [StrutArray EXCEPT ![2] = DisplayWidth - g.x,
                     ![7] = Clamp(g.y, 0, DisplayHeight),
                     ![8] = Clamp(EndY(g), 0, DisplayHeight)]

StrutRight(g) ==
  [StrutArray EXCEPT ![2] = DisplayWidth - Clamp(g.x, 0, DisplayWidth),
                     ![7] = Clamp(g.y, 0, DisplayHeight),
                     ![8] = Clamp(EndY(g), 0, DisplayHeight)]

StrutTop(g) ==
  [StrutArray EXCEPT ![3] = Clamp(EndY(g), 0, DisplayHeight),
                     ![9] = Clamp(g.x, 0, DisplayWidth),
                     ![10] = Clamp(EndX(g), 0, DisplayWidth)]

\* Variant that stores the horizontal range in the slots of the top edge.
StrutBottom_top_range(g) ==
  [StrutArray EXCEPT ![4] = DisplayHeight - Clamp(g.y, 0, DisplayHeight),
                     ![9] = Clamp(g.x, 0, DisplayWidth),
                     ![10] = Clamp(EndX(g), 0, DisplayWidth)]

StrutBottom(g) ==
  [StrutArray EXCEPT ![4] = DisplayHeight - Clamp(g.y, 0, DisplayHeight),
                     ![11] = Clamp(g.x, 0, DisplayWidth),
                     ![12] = Clamp(EndX(g), 0, DisplayWidth)]

\* The cutout branch: the two switch statements over the alignment.
CutoutStruts(g, align, wide) ==
  IF wide
  THEN CASE align \in {"TOP_LEFT", "TOP_RIGHT", "TOP_MIDDLE"} -> StrutTop(g)
         [] align \in {"BOTTOM_LEFT", "BOTTOM_RIGHT", "BOTTOM_MIDDLE"} -> StrutBottom(g)
         [] align = "MIDDLE_LEFT" -> StrutLeft(g)
         [] align = "MIDDLE_RIGHT" -> StrutRight(g)
         [] OTHER -> StrutArray
  ELSE CASE align \in {"TOP_LEFT", "MIDDLE_LEFT", "BOTTOM_LEFT"} -> StrutLeft(g)
         [] align \in {"TOP_RIGHT", "MIDDLE_RIGHT", "BOTTOM_RIGHT"} -> StrutRight(g)
         [] align = "TOP_MIDDLE" -> StrutTop(g)
         [] align = "BOTTOM_MIDDLE" -> StrutBottom(g)
         [] OTHER -> StrutArray

\* Variant that takes a square window for a tall one.
CompliantStruts_square_is_tall(g) ==
  IF g.w <= g.h
  THEN LET space_left == EndX(g)
           space_right == DisplayWidth - EndX(g) + g.w
       IN IF space_left < space_right THEN StrutLeft(g) ELSE StrutRight(g)
  ELSE LET space_top == EndY(g)
           space_bottom == DisplayHeight - EndY(g) + g.h
       IN IF space_top < space_bottom THEN StrutTop(g) ELSE StrutBottom(g)

\* The branch for window managers that follow the specification.
CompliantStruts(g) ==
  IF g.w < g.h
  THEN LET space_left == EndX(g)
           space_right == DisplayWidth - EndX(g) + g.w
       IN IF space_left < space_right THEN StrutLeft(g) ELSE StrutRight(g)
  ELSE LET space_top == EndY(g)
           space_bottom == DisplayHeight - EndY(g) + g.h
       IN IF space_top < space_bottom THEN StrutTop(g) ELSE StrutBottom(g)

StrutWrites(w, sizes) ==
  <<ChangeProperty(w, "_NET_WM_STRUT", "Replace", SubSeq(sizes, 1, 4)),
    ChangeProperty(w, "_NET_WM_STRUT_PARTIAL", "Replace", sizes)>>

\* Variant that computes the preferred axis on every call.
set_struts_recomputes_axis ==
  /\ display # None
  /\ LET g == window.geometry
         warn == IF statics.warn_once /\ cfg.wm = "enlightenment"
                 THEN <<NormErr("WM doesn't support WM_STRUT hints")>> ELSE <<>>
         supports_cutout ==
           build.ENABLE_RUNTIME_TWEAKS /\ cfg.wm \in {"compiz", "fluxbox", "i3", "kwin"}
         returns_early == supports_cutout /\ AlignHasNoEdge(cfg.align)
         wide == g.w > g.h \/ cfg.wm = "i3"
         sizes == IF supports_cutout THEN CutoutStruts(g, cfg.align, wide)
                  ELSE CompliantStruts(g)
     IN /\ statics' = [statics EXCEPT
                         !.warn_once = FALSE,
                         !.is_wide_window =
                           IF supports_cutout /\ ~returns_early
                           THEN (IF wide THEN "wide" ELSE "thin")
                           ELSE statics.is_wide_window]
        /\ reqs' = warn \o (IF returns_early THEN <<>>
                             ELSE StrutWrites(window.window, sizes))
  /\ last' = LogCall("set_struts")
  /\ UNCHANGED <<sessionVars, desktopVars, envVars, window, created, workarea>>

set_struts ==
  /\ display # None
  /\ LET g == window.geometry
         warn == IF statics.warn_once /\ cfg.wm = "enlightenment"
                 THEN <<NormErr("WM doesn't support WM_STRUT hints")>> ELSE <<>>
         supports_cutout ==
           build.ENABLE_RUNTIME_TWEAKS /\ cfg.wm \in {"compiz", "fluxbox", "i3", "kwin"}
         returns_early == supports_cutout /\ AlignHasNoEdge(cfg.align)
         wide == IF statics.is_wide_window = "unset"
                 THEN g.w > g.h \/ cfg.wm = "i3"
                 ELSE statics.is_wide_window = "wide"
         sizes == IF supports_cutout THEN CutoutStruts(g, cfg.align, wide)
                  ELSE CompliantStruts(g)
     IN /\ statics' = [statics EXCEPT
                         !.warn_once = FALSE,
                         !.is_wide_window =
                           IF supports_cutout /\ ~returns_early
                           THEN (IF wide THEN "wide" ELSE "thin")
                           ELSE statics.is_wide_window]
        /\ reqs' = warn \o (IF returns_early THEN <<>>
                             ELSE StrutWrites(window.window, sizes))
  /\ last' = LogCall("set_struts")
  /\ UNCHANGED <<sessionVars, desktopVars, envVars, window, created, workarea>>

\* ------------------------------------------------------------------------
\* Input propagation
\* ------------------------------------------------------------------------
CoreInputTypes ==
  {"KeyPress", "KeyRelease", "ButtonPress", "ButtonRelease", "MotionNotify",
   "EnterNotify", "LeaveNotify"}

XiForwarded == {"XI_Motion", "XI_ButtonPress", "XI_ButtonRelease"}

CurrentTime == 0

\* Variant without the test of the event type.
IsCoreInput_any(type) == TRUE

\* The test of propagate_x11_event for a known input event.
IsCoreInput(type) == type \in CoreInputTypes

\* ev_to_mask(event_type, button).
ev_to_mask(event_type, button) ==
  CASE event_type = "KeyPress" -> {"KeyPress"}
    [] event_type = "KeyRelease" -> {"KeyRelease"}
    [] event_type = "ButtonPress" -> {"ButtonPress"}
    [] event_type = "ButtonRelease" ->
         IF button \in 1 .. 5
         THEN {"ButtonRelease", "Button" \o ToString(button) \o "Motion"}
         ELSE {"ButtonRelease"}
    [] event_type = "EnterNotify" -> {"EnterWindow"}
    [] event_type = "LeaveNotify" -> {"LeaveWindow"}
    [] event_type = "MotionNotify" -> {"PointerMotion"}
    [] OTHER -> {}

\* query_x11_windows(display, eager) as the propagation functions call it,
\* without the eager traversal: the stacking list if the server knows its
\* atom and the list is not empty, else the client list.
query_x11_windows(rs, rl) ==
  LET stacking == IF XInternAtomIfExists(A_STACKING, srvAtoms) # None
                  THEN x11_atom_window_list(rs) ELSE <<>>
      clients == IF XInternAtomIfExists(A_CLIENTS, srvAtoms) # None
                 THEN x11_atom_window_list(rl) ELSE <<>>
  IN IF stacking # <<>> THEN stacking ELSE clients

\* The traversal of query_x11_windows(display, true): the window taken is
\* the last of the queue, its children are pushed in enumeration order, and
\* it is added to the result when XGetWMHints finds hints on it.  A window
\* XQueryTree fails for is dropped.
RECURSIVE EagerScan(_, _, _)
EagerScan(queue, result, log) ==
  IF queue = <<>> THEN [result |-> result, log |-> log]
  ELSE LET current == queue[Len(queue)]
           rest == SubSeq(queue, 1, Len(queue) - 1)
           asked == Append(log, Req("XQueryTree", current, "", "", <<>>, {}))
       IN IF current \in DOMAIN server.tree
          THEN EagerScan(rest \o server.tree[current].children,
                         IF current \in server.wmhints
                         THEN Append(result, current) ELSE result,
                         asked)
          ELSE EagerScan(rest, result, asked)

\* query_x11_windows(display, eager) with the traversal: the windows it
\* returns and the tree queries it makes.
query_x11_windows_eager(eager, root, rs, rl) ==
  LET listed == query_x11_windows(rs, rl)
  IN IF listed # <<>> THEN [result |-> listed, log |-> <<>>]
     ELSE IF eager THEN EagerScan(<<root>>, <<>>, <<>>)
     ELSE [result |-> <<>>, log |-> <<>>]

\* A call of query_x11_windows by the host, reading the lists the server
\* publishes; the traversal starts at DefaultVRootWindow(display).
QueryWindows(eager) ==
  /\ display # None
  /\ \E root \in VRootWindowOfScreen(server.vroots, server.curdesk) :
       LET q == query_x11_windows_eager(eager, root, server.stacking, server.clients)
       IN /\ reqs' = q.log
          /\ last' = LogRecord("query_x11_windows", Bit(eager), eager, FALSE, FALSE,
                               "", {}, NoEvent, NoCookie, NoEvent, q.result)
  /\ UNCHANGED <<sessionVars, desktopVars, envVars, windowVars, workarea>>

\* The attributes XGetWindowAttributes returns; the windows of the model
\* all have their origin at the origin of the root.
WindowAttributes(w) ==
  IF w \in DOMAIN server.tree
  THEN [w |-> server.tree[w].w, h |-> server.tree[w].h,
        viewable |-> server.tree[w].viewable]
  ELSE [w |-> window.geometry.w, h |-> window.geometry.h, viewable |-> TRUE]

\* query_x11_windows_at_pos with the viewable predicate.
RECURSIVE AtPos(_, _)
AtPos(ws, pos) ==
  IF ws = <<>> THEN <<>>
  ELSE LET a == WindowAttributes(Head(ws))
       IN (IF 0 <= pos.x /\ 0 <= pos.y /\ a.w >= pos.x /\ a.h >= pos.y /\ a.viewable
           THEN <<Head(ws)>> ELSE <<>>) \o AtPos(Tail(ws), pos)

query_x11_windows_at_pos(pos, rs, rl) == AtPos(query_x11_windows(rs, rl), pos)

\* The windows found without the overlay's own window.
Below(pos, rs, rl) ==
  SelectSeq(query_x11_windows_at_pos(pos, rs, rl), LAMBDA w : w # window.window)

\* The window propagate_xinput_event sends to: the last window found
\* below the pointer, else the root.
XInputTarget(below) == IF below # <<>> THEN below[Len(below)] ELSE window.root

\* The window propagate_x11_event sends a core event to: the last window
\* found below the pointer, else the desktop window.
CoreTarget(below) == IF below # <<>> THEN below[Len(below)] ELSE window.desktop

\* What propagate_xinput_event does with the event data: the requests and
\* the windows found.  generate_events yields n core events, of the type
\* that corresponds to the extension event.
XInputEffects(cookie, rs, rl, n) ==
  IF cookie.evtype \notin XiForwarded THEN [reqs |-> <<>>, below |-> <<>>]
  ELSE
    LET below == Below(cookie.pos_absolute, rs, rl)
        target == XInputTarget(below)
        pos == IF below # <<>> THEN cookie.pos_absolute ELSE cookie.pos
        type == CASE cookie.evtype = "XI_Motion" -> "MotionNotify"
                  [] cookie.evtype = "XI_ButtonPress" -> "ButtonPress"
                  [] OTHER -> "ButtonRelease"
    IN [reqs |-> <<Req("XUngrabPointer", 0, "", "", <<>>, {})>>
                 \o [i \in 1 .. n |->
                       Req("XSendEvent", target, type, "", <<pos.x, pos.y>>,
                           ev_to_mask(type, 0))]
                 \o <<Req("XFlush", 0, "", "", <<>>, {})>>,
        below |-> below]

\* propagate_xinput_event(ev), compiled with BUILD_XINPUT.
propagate_xinput_event(cookie, rs, rl, n) ==
  /\ display # None
  /\ build.BUILD_XINPUT
  /\ cookie # NoCookie
  /\ LET e == XInputEffects(cookie, rs, rl, n)
     IN /\ reqs' = e.reqs
        /\ last' = LogEvent("propagate_xinput_event", NoEvent, cookie, NoEvent, e.below)
  /\ UNCHANGED <<sessionVars, desktopVars, envVars, windowVars, workarea>>

\* Variant that gives the target the focus for a button release too.
propagate_x11_event_focus_on_release(ev, cookie, rs, rl, n) ==
  /\ display # None
  /\ IF build.BUILD_XINPUT /\ ev.type = "GenericEvent"
        /\ ev.extension = window.xi_opcode
     THEN IF cookie = NoCookie
          THEN /\ reqs' = <<>>
               /\ last' = LogEvent("propagate_x11_event", ev, cookie, ev, <<>>)
          ELSE LET e == XInputEffects(cookie, rs, rl, n)
               IN /\ reqs' = e.reqs
                  /\ last' = LogEvent("propagate_x11_event", ev, cookie, ev, e.below)
     ELSE IF ~IsCoreInput(ev.type)
     THEN /\ reqs' = <<>>
          /\ last' = LogEvent("propagate_x11_event", ev, cookie, ev, <<>>)
     ELSE LET below == Below([x |-> ev.x_root, y |-> ev.y_root], rs, rl)
              target == CoreTarget(below)
              out == [ev EXCEPT !.window = target, !.x = ev.x_root,
                                !.y = ev.y_root, !.time = CurrentTime]
              mask == ev_to_mask(ev.type,
                                 IF ev.type = "ButtonRelease" THEN ev.button ELSE 0)
          IN /\ reqs' = <<Req("XUngrabPointer", 0, "", "", <<>>, {}),
                          Req("XSendEvent", target, ev.type, "", <<out.x, out.y>>, mask)>>
                        \o (IF ev.type \in {"ButtonPress", "ButtonRelease"}
                            THEN <<Req("XSetInputFocus", target, "", "", <<>>, {})>>
                            ELSE <<>>)
             /\ last' = LogEvent("propagate_x11_event", ev, cookie, out, below)
  /\ UNCHANGED <<sessionVars, desktopVars, envVars, windowVars, workarea>>

\* propagate_x11_event(ev, cookie).
propagate_x11_event(ev, cookie, rs, rl, n) ==
  /\ display # None
  /\ IF build.BUILD_XINPUT /\ ev.type = "GenericEvent"
        /\ ev.extension = window.xi_opcode
     THEN IF cookie = NoCookie
          THEN /\ reqs' = <<>>
               /\ last' = LogEvent("propagate_x11_event", ev, cookie, ev, <<>>)
          ELSE LET e == XInputEffects(cookie, rs, rl, n)
               IN /\ reqs' = e.reqs
                  /\ last' = LogEvent("propagate_x11_event", ev, cookie, ev, e.below)
     ELSE IF ~IsCoreInput(ev.type)
     THEN /\ reqs' = <<>>
          /\ last' = LogEvent("propagate_x11_event", ev, cookie, ev, <<>>)
     ELSE LET below == Below([x |-> ev.x_root, y |-> ev.y_root], rs, rl)
              target == CoreTarget(below)
              out == [ev EXCEPT !.window = target, !.x = ev.x_root,
                                !.y = ev.y_root, !.time = CurrentTime]
              mask == ev_to_mask(ev.type,
                                 IF ev.type = "ButtonRelease" THEN ev.button ELSE 0)
          IN /\ reqs' = <<Req("XUngrabPointer", 0, "", "", <<>>, {}),
                          Req("XSendEvent", target, ev.type, "", <<out.x, out.y>>, mask)>>
                        \o (IF ev.type = "ButtonPress"
                            THEN <<Req("XSetInputFocus", target, "", "", <<>>, {})>>
                            ELSE <<>>)
             /\ last' = LogEvent("propagate_x11_event", ev, cookie, out, below)
  /\ UNCHANGED <<sessionVars, desktopVars, envVars, windowVars, workarea>>

\* ------------------------------------------------------------------------
\* Initial state: the globals as the loader leaves them
\* ------------------------------------------------------------------------
DefaultBuild ==
  [HAVE_XCB_ERRORS |-> FALSE, BUILD_XINPUT |-> TRUE, BUILD_XINERAMA |-> TRUE,
   BUILD_MOUSE_EVENTS |-> TRUE, BUILD_ARGB |-> TRUE, BUILD_XSHAPE |-> TRUE,
   BUILD_XFIXES |-> TRUE, ENABLE_RUNTIME_TWEAKS |-> TRUE]

WinAttr(children, viewable, override, w, h) ==
  [children |-> children, viewable |-> viewable, override_redirect |-> override,
   w |-> w, h |-> h]

\* A root with no children.
BareTree == (TrueRoot :> WinAttr(<<>>, TRUE, FALSE, DisplayWidth, DisplayHeight))

\* A root whose second child is a file manager's full-screen desktop window.
DesktopTree ==
  (TrueRoot :> WinAttr(<<2, 3>>, TRUE, FALSE, DisplayWidth, DisplayHeight))
  @@ (2 :> WinAttr(<<>>, TRUE, FALSE, 1, 1))
  @@ (3 :> WinAttr(<<>>, TRUE, FALSE, DisplayWidth, DisplayHeight))

NoXinerama == [present |-> FALSE, active |-> FALSE, null |-> FALSE, heads |-> <<>>]

DefaultServer ==
  [xinerama |-> NoXinerama, tree |-> BareTree, xi |-> "ok", argb |-> FALSE,
   xshape |-> TRUE, vroots |-> WindowListReply(0, 0, <<>>),
   curdesk |-> CardReply(0, "None", 0, 0, 0),
   numdesk |-> CardReply(0, "None", 0, 0, 0),
   stacking |-> WindowListReply(0, 0, <<>>),
   clients |-> WindowListReply(0, 0, <<>>), wmhints |-> {}]

DefaultCfg ==
  [wm |-> "other", align |-> "TOP_LEFT", head_index |-> 0, use_argb |-> FALSE,
   border |-> 1]

InitProgram ==
  /\ display = None
  /\ openDisplays = {}
  /\ opens = 0
  /\ xcbConns = 0
  /\ desktop = [current |-> 0, number |-> 0, all_names |-> <<>>, name |-> <<>>]
  /\ atoms = [current |-> None, number |-> None, names |-> None]
  /\ coldStarted = FALSE
  /\ last = LogCall("none")
  /\ window = ZeroWindow
  /\ workarea = ZeroRect
  /\ statics = [have_argb_visual |-> FALSE, window_created |-> 0,
                is_wide_window |-> "unset", warn_once |-> TRUE]
  /\ created = 0
  /\ reqs = <<>>

\* ------------------------------------------------------------------------
\* Specification of the desktop-state cache
\* ------------------------------------------------------------------------
InitDesktop ==
  /\ InitProgram
  /\ build = DefaultBuild
  /\ cfg = DefaultCfg
  /\ server = DefaultServer
  /\ srvAtoms \in SUBSET DesktopAtoms

AbsentCard == CardReply(0, "None", 0, 0, 0)
AbsentNames == NamesReply(0, "None", 0, <<>>)

DesktopColdStart ==
  \E rc \in GoodCardReplies \cup {AbsentCard},
     rn \in {CardReply(0, "CARDINAL", 32, 1, MaxCard), AbsentCard},
     rs \in GoodNamesReplies \cup {AbsentNames} :
    init_x11(rc, rn, rs)

DesktopPropertyNotify ==
  \/ \E r \in CardReplies : get_x11_desktop_info(A_CURRENT, r, AbsentCard, AbsentNames)
  \/ \E r \in CardReplies : get_x11_desktop_info(A_NUMBER, AbsentCard, r, AbsentNames)
  \/ \E r \in NamesReplies : get_x11_desktop_info(A_NAMES, AbsentCard, AbsentCard, r)
  \/ get_x11_desktop_info(A_OTHER, AbsentCard, AbsentCard, AbsentNames)

DesktopServer == \E a \in DesktopAtoms : ServerInternAtom(a)

NextDesktop == DesktopColdStart \/ DesktopPropertyNotify \/ DesktopServer

SpecDesktop == InitDesktop /\ [][NextDesktop]_vars

\* ------------------------------------------------------------------------
\* Properties of the desktop-state cache
\* ------------------------------------------------------------------------
Notified(l, atom) == l.op = "get_x11_desktop_info" /\ l.arg = atom

\* C3: a property read that finds the property absent or of the wrong type,
\* format or item count leaves the corresponding cached field as the last
\* valid read set it, for each of the index, the count and the name list.
C3_MismatchedReadKeepsField ==
  [][/\ (Notified(last', A_CURRENT) /\ ~last'.okc)
        => desktop'.current = desktop.current
     /\ (Notified(last', A_NUMBER) /\ ~last'.okn)
        => desktop'.number = desktop.number
     /\ (Notified(last', A_NAMES) /\ ~last'.oks)
        => desktop'.all_names = desktop.all_names]_vars

\* A valid read set the index to 3 and a later mismatched read of the index
\* property, with the atom known, has been handled.
C3_Witness ==
  /\ Notified(last, A_CURRENT) /\ atoms.current = A_CURRENT /\ ~last.okc
  /\ desktop.current = 3

\* C4: a property-change refresh touches only the field of the atom passed:
\* the count atom at most the count; the index atom at most the index and
\* the current name; the name-list atom at most the list and the current
\* name; any other atom nothing.
C4_RefreshOnlyMatchingField ==
  [][(last'.op = "get_x11_desktop_info" /\ last'.arg # 0) =>
       /\ atoms' = atoms
       /\ last'.arg = A_NUMBER =>
            desktop' = [desktop EXCEPT !.number = desktop'.number]
       /\ last'.arg = A_CURRENT =>
            desktop' = [desktop EXCEPT !.current = desktop'.current,
                                       !.name = desktop'.name]
       /\ last'.arg = A_NAMES =>
            desktop' = [desktop EXCEPT !.all_names = desktop'.all_names,
                                       !.name = desktop'.name]
       /\ last'.arg \notin DesktopAtoms => desktop' = desktop]_vars

\* A change of the index property has been handled and moved the index to 2
\* and the current name to the second name of the list, the count staying 0.
C4_Witness ==
  /\ Notified(last, A_CURRENT) /\ last.okc
  /\ desktop.all_names = <<NUL, 1, NUL>>
  /\ desktop.current = 2 /\ desktop.name = <<1>> /\ desktop.number = 0

\* The names of a NUL-separated list, read off the positions of its NULs.
NulPositions(s) == {i \in 1 .. Len(s) : s[i] = NUL}
NumNames(s) == Cardinality(NulPositions(s))
KthNul(s, k) ==
  CHOOSE p \in NulPositions(s) : Cardinality({q \in NulPositions(s) : q < p}) = k - 1
KthName(s, k) ==
  LET from == IF k = 1 THEN 1 ELSE KthNul(s, k - 1) + 1
  IN SubSeq(s, from, KthNul(s, k) - 1)
NulTerminated(s) == Len(s) > 0 /\ s[Len(s)] = NUL

\* C5: once the cold start has run, the cached current name is the entry of
\* the cached name list at the cached 1-based index; stated for lists that
\* are empty or NUL-terminated, the empty name standing for an entry the
\* list does not have.
C5_NameMatchesIndex ==
  (coldStarted /\ (desktop.all_names = <<>> \/ NulTerminated(desktop.all_names))) =>
    desktop.name = IF desktop.current \in 1 .. NumNames(desktop.all_names)
                   THEN KthName(desktop.all_names, desktop.current)
                   ELSE <<>>

\* C6: for a list of n NUL-terminated names and an index k in 1..n the
\* current name is exactly the k-th name of the list.
C6_CurrentNameIsKthName ==
  (/\ coldStarted
   /\ NulTerminated(desktop.all_names)
   /\ desktop.current \in 1 .. NumNames(desktop.all_names))
  => desktop.name = KthName(desktop.all_names, desktop.current)

\* The list holds the names "", "a" and the index 2 selected "a".
C6_Witness ==
  /\ coldStarted
  /\ desktop.all_names = <<NUL, 1, NUL>>
  /\ desktop.current = 2
  /\ desktop.name = <<1>>

\* ------------------------------------------------------------------------
\* Specification of the display session and the overlay window record
\* ------------------------------------------------------------------------
AbsentList == WindowListReply(0, 0, <<>>)

InitSession ==
  /\ InitProgram
  /\ build \in {[DefaultBuild EXCEPT !.HAVE_XCB_ERRORS = x] : x \in BOOLEAN}
  /\ cfg = DefaultCfg
  /\ server \in {[DefaultServer EXCEPT !.tree = t] : t \in {BareTree, DesktopTree}}
  /\ srvAtoms = DesktopAtoms

SessionInit ==
  \E rc \in {CardReply(0, "CARDINAL", 32, 1, 1), AbsentCard} :
    init_x11(rc, AbsentCard, AbsentNames)

SessionInitWindow ==
  \E own \in BOOLEAN, type \in {"NORMAL", "OVERRIDE"} :
    x11_init_window(own, own, type, {}, AbsentList, AbsentCard)

NextSession ==
  \/ SessionInit
  \/ init_x11_fail
  \/ deinit_x11
  \/ SessionInitWindow
  \/ create_gc
  \/ destroy_window

SpecSession == InitSession /\ [][NextSession]_vars

C10_DeinitInvalidatesDependents ==
  last.op = "deinit_x11" =>
    /\ display = None /\ openDisplays = {}
    /\ window.window = 0 /\ window.drawable = 0 /\ window.gc = 0

\* ------------------------------------------------------------------------
\* Specification of strut reservation
\* ------------------------------------------------------------------------
Geometries ==
  {Rect(x, y, w, h) : x \in -1 .. DisplayWidth + 1, y \in -1 .. DisplayHeight + 1,
                      w \in 0 .. DisplayWidth + 1, h \in 0 .. DisplayHeight + 1}

InitStruts ==
  /\ InitProgram
  /\ build = DefaultBuild
  /\ cfg \in {[DefaultCfg EXCEPT !.wm = wm, !.align = a] :
                wm \in WindowManagers, a \in Alignments}
  /\ server = DefaultServer
  /\ srvAtoms = {}

StrutsInit == init_x11(AbsentCard, AbsentCard, AbsentNames)

StrutsInitWindow ==
  /\ created = 0
  /\ \E type \in {"DOCK", "PANEL"} :
       x11_init_window(TRUE, TRUE, type, {}, AbsentList, AbsentCard)

\* A ConfigureNotify moves or resizes the overlay window.
StrutsConfigure ==
  /\ window.window # None
  /\ \E g \in Geometries :
       /\ (g.x = window.geometry.x /\ g.y = window.geometry.y)
          \/ (g.w = window.geometry.w /\ g.h = window.geometry.h)
       /\ HostSetGeometry(g)

StrutsSet == window.window # None /\ set_struts

NextStruts == StrutsInit \/ StrutsInitWindow \/ StrutsConfigure \/ StrutsSet

SpecStruts == InitStruts /\ [][NextStruts]_vars

Horizontal == {1, 2, 9, 10, 11, 12}

StrutRequests == {i \in 1 .. Len(reqs) : reqs[i].prop \in {"_NET_WM_STRUT", "_NET_WM_STRUT_PARTIAL"}}

\* C7: every strut value set_struts writes lies in [0, display_width] when
\* it is a horizontal quantity and in [0, display_height] when vertical.
C7_StrutsClamped ==
  last.op = "set_struts" =>
    \A i \in StrutRequests : \A k \in 1 .. Len(reqs[i].data) :
      /\ 0 <= reqs[i].data[k]
      /\ reqs[i].data[k] <= IF k \in Horizontal THEN DisplayWidth ELSE DisplayHeight

\* set_struts wrote a right-edge reservation of the whole display width for
\* a window that starts left of the display and below its bottom edge.
C7_Witness ==
  /\ last.op = "set_struts"
  /\ window.geometry.x < 0 /\ window.geometry.y > DisplayHeight
  /\ \E i \in StrutRequests :
       /\ Len(reqs[i].data) = StrutCount
       /\ reqs[i].data[2] = DisplayWidth

\* ------------------------------------------------------------------------
\* Specification of the window hints
\* ------------------------------------------------------------------------
InitHints ==
  /\ InitProgram
  /\ build = DefaultBuild
  /\ cfg = DefaultCfg
  /\ server \in {[DefaultServer EXCEPT !.tree = t] : t \in {BareTree, DesktopTree}}
  /\ srvAtoms = DesktopAtoms

HintsInit == init_x11(AbsentCard, AbsentCard, AbsentNames)

\* own_window yes, with a managed window type and any set of hints.
HintsInitManaged ==
  \E type \in {"NORMAL", "DOCK"}, hints \in SUBSET Hints :
    x11_init_window(TRUE, TRUE, type, hints, AbsentList, AbsentCard)

\* own_window yes, with one of the other managed types.
HintsInitTyped ==
  \E type \in {"DESKTOP", "PANEL", "UTILITY"}, hints \in {{}, Hints} :
    x11_init_window(TRUE, TRUE, type, hints, AbsentList, AbsentCard)

\* own_window yes with the override type, or own_window no.
HintsInitOther ==
  \E own \in BOOLEAN, hints \in SUBSET Hints :
    x11_init_window(own, own, "OVERRIDE", hints, AbsentList, AbsentCard)

NextHints ==
  \/ HintsInit
  \/ HintsInitManaged
  \/ HintsInitTyped
  \/ HintsInitOther
  \/ destroy_window

SpecHints == InitHints /\ [][NextHints]_vars

Range(f) == {f[i] : i \in DOMAIN f}

\* The properties the hint blocks write.
HintProps == {"_MOTIF_WM_HINTS", "_WIN_LAYER", "_NET_WM_STATE", "_NET_WM_DESKTOP"}

RECURSIVE SelectWrites(_, _)
SelectWrites(rs, props) ==
  IF rs = <<>> THEN <<>>
  ELSE (IF Head(rs).req = "XChangeProperty" /\ Head(rs).prop \in props
        THEN <<Head(rs)>> ELSE <<>>) \o SelectWrites(Tail(rs), props)

\* The contents of property p of a new window after the writes ws.
RECURSIVE Contents(_, _)
Contents(ws, p) ==
  IF ws = <<>> THEN <<>>
  ELSE LET r == ws[Len(ws)]
           before == Contents(SubSeq(ws, 1, Len(ws) - 1), p)
       IN IF r.prop # p THEN before
          ELSE IF r.mode = "Replace" THEN r.data ELSE before \o r.data

\* The sequences that hold every member of S once.
RECURSIVE Orderings(_)
Orderings(S) ==
  IF S = {} THEN {<<>>}
  ELSE UNION {{<<x>> \o o : o \in Orderings(S \ {x})} : x \in S}

Occurrences(q, v) == Cardinality({i \in DOMAIN q : q[i] = v})
SameItems(a, b) ==
  \A v \in Range(a) \cup Range(b) : Occurrences(a, v) = Occurrences(b, v)

ManagedCall ==
  last.op = "x11_init_window" /\ last.arg = 1 /\ last.type # "OVERRIDE"

\* The hint writes of the call are the union of the writes of each of its
\* hints enabled alone.
HintWritesAdditive ==
  Range(SelectWrites(reqs, HintProps)) =
    UNION {Range(ApplyHints(window.window, {h}, HintOrder)) : h \in last.hints}

InitEvents ==
  /\ InitProgram
  /\ build \in {[DefaultBuild EXCEPT !.BUILD_XINPUT = x] : x \in BOOLEAN}
  /\ cfg = DefaultCfg
  /\ server \in {[DefaultServer EXCEPT !.tree = t] : t \in {BareTree, DesktopTree}}
  /\ srvAtoms = DesktopAtoms \cup {A_STACKING, A_CLIENTS}

EventsInit == init_x11(AbsentCard, AbsentCard, AbsentNames)

EventsInitWindow ==
  \E own \in BOOLEAN, type \in {"NORMAL", "OVERRIDE"} :
    x11_init_window(own, own, type, {}, AbsentList, AbsentCard)

\* An event of the server with the pointer at (1, 1) of the root.
XEvent(type, extension, button) ==
  [type |-> type, extension |-> extension, window |-> window.window,
   x |-> 0, y |-> 0, x_root |-> 1, y_root |-> 1, time |-> 1, button |-> button]

\* The core events and an Expose event.
PlainEvents ==
  {XEvent(t, 0, 0) : t \in CoreInputTypes \cup {"Expose"}}
    \cup {XEvent("ButtonRelease", 0, 1)}

\* The GenericEvents, of the XInput extension and of another.
GenericEvents == {XEvent("GenericEvent", x, 0) : x \in {0, XiOpcode}}

Cookies ==
  {[evtype |-> t, pos |-> [x |-> 0, y |-> 0], pos_absolute |-> [x |-> 1, y |-> 1]] :
     t \in {"XI_Motion", "XI_ButtonPress", "XI_HierarchyChanged"}}

\* The replies to a read of a client list: no property, or the root and the
\* overlay as a list of 32-bit items.
ListReplies == {AbsentList, WindowListReply(0, 32, <<TrueRoot, window.window>>)}

MaxGenerated == 1

\* The host passes on events once the overlay has a window.
EventsPropagate ==
  /\ window.window # None
  /\ \E ev \in PlainEvents, rs \in ListReplies :
       propagate_x11_event(ev, NoCookie, rs, AbsentList, 0)

EventsPropagateGeneric ==
  /\ window.window # None
  /\ \E ev \in GenericEvents, cookie \in Cookies \cup {NoCookie}, rs \in ListReplies,
        n \in 0 .. MaxGenerated :
       propagate_x11_event(ev, cookie, rs, AbsentList, n)

EventsPropagateXInput ==
  /\ window.window # None
  /\ \E cookie \in Cookies, rs \in ListReplies, n \in 0 .. MaxGenerated :
       propagate_xinput_event(cookie, AbsentList, rs, n)

NextEvents ==
  \/ EventsInit
  \/ EventsInitWindow
  \/ EventsPropagate
  \/ EventsPropagateGeneric
  \/ EventsPropagateXInput

SpecEvents == InitEvents /\ [][NextEvents]_vars

Propagated == last.op \in {"propagate_x11_event", "propagate_xinput_event"}

SendRequests == {i \in 1 .. Len(reqs) : reqs[i].req = "XSendEvent"}

\* C1: an event forwarded from an overlay with a window of its own is never
\* sent to that window, and when no other window is found at its position
\* it is sent to the desktop window.
C1_ForwardTargetNeverOverlay ==
  (Propagated /\ window.window # None /\ window.window # window.desktop) =>
    \A i \in SendRequests :
      /\ reqs[i].win # window.window
      /\ last.below = <<>> => reqs[i].win = window.desktop

\* C2 as stated: propagate_x11_event sends an event only for the seven core
\* types; for any other type it makes no request and leaves the event as it
\* was.
C2_OnlyCoreTypesForwarded ==
  (last.op = "propagate_x11_event" /\ last.ev.type \notin CoreInputTypes) =>
    /\ reqs = <<>>
    /\ last.out = last.ev

XInputDelegated(l) ==
  /\ build.BUILD_XINPUT
  /\ l.ev.type = "GenericEvent" /\ l.ev.extension = window.xi_opcode
  /\ l.cookie.evtype \in XiForwarded

\* C2 as amended: for an event that is not of the seven core types
\* propagate_x11_event leaves the event as it was, and makes no request
\* unless the build has XInput and the event is a GenericEvent of that
\* extension with motion or button data; it then does what
\* propagate_xinput_event does, which releases the pointer grab and sends
\* only motion and button events.  An event of a core type is sent with
\* its own type.
C2_OnlyCoreOrXInputForwarded ==
  last.op = "propagate_x11_event" =>
    /\ last.ev.type \notin CoreInputTypes =>
         /\ last.out = last.ev
         /\ ~XInputDelegated(last) => reqs = <<>>
         /\ XInputDelegated(last) =>
              /\ reqs[1].req = "XUngrabPointer"
              /\ \A i \in 1 .. Len(reqs) : reqs[i].req # "XSetInputFocus"
              /\ \A i \in SendRequests :
                   reqs[i].prop \in {"MotionNotify", "ButtonPress", "ButtonRelease"}
    /\ last.ev.type \in CoreInputTypes =>
         \A i \in SendRequests : reqs[i].prop = last.ev.type

\* An Expose event and a GenericEvent of the extension without data were
\* both dropped: no request, the event as it was.
C2_Witness ==
  /\ last.op = "propagate_x11_event"
  /\ build.BUILD_XINPUT
  /\ last.ev.type = "GenericEvent" /\ last.ev.extension = window.xi_opcode
  /\ last.cookie = NoCookie
  /\ window.window # None
  /\ reqs = <<>> /\ last.out = last.ev

\* ------------------------------------------------------------------------
\* Lifecycle of the overlay window
\* ------------------------------------------------------------------------
\* C11: within a session the overlay window is created at most once: once
\* x11_init_window has created a window on the open connection, no later
\* x11_init_window call creates another.
C11_WindowCreatedOnce ==
  [][(last'.op = "x11_init_window" /\ display # None
        /\ window.window >= FirstXid)
       => created' = created]_vars

\* ------------------------------------------------------------------------
\* Specification of the workarea tracker and the desktop search
\* ------------------------------------------------------------------------
\* The left and the right half of the display, and a head that starts in
\* the middle and is as wide as the display the connection knows.
LeftHead == Rect(0, 0, 1, DisplayHeight)
RightHead == Rect(1, 0, DisplayWidth - 1, DisplayHeight)
WideHead == Rect(1, 0, DisplayWidth, DisplayHeight)

HeadLayouts == {<<LeftHead>>, <<LeftHead, RightHead>>, <<LeftHead, WideHead>>}

XineramaConfigs ==
  {NoXinerama,
   [present |-> TRUE, active |-> FALSE, null |-> FALSE, heads |-> <<>>],
   [present |-> TRUE, active |-> TRUE, null |-> TRUE, heads |-> <<>>]}
  \cup {[present |-> TRUE, active |-> TRUE, null |-> FALSE, heads |-> hs] :
          hs \in HeadLayouts}

\* A root whose child has the size of the left head.
HeadTree ==
  (TrueRoot :> WinAttr(<<2>>, TRUE, FALSE, DisplayWidth, DisplayHeight))
  @@ (2 :> WinAttr(<<>>, TRUE, FALSE, 1, DisplayHeight))

HeadIndexes == -1 .. 2

\* The virtual roots a window manager publishes, as 32-bit items.
VRootLists ==
  {AbsentList, WindowListReply(0, 32, <<>>), WindowListReply(0, 32, <<4, 5>>)}

CurrentDesktops ==
  {AbsentCard} \cup {CardReply(0, "CARDINAL", 32, 1, v) : v \in 0 .. 2}

InitWorkarea ==
  /\ InitProgram
  /\ build = DefaultBuild
  /\ cfg = DefaultCfg
  /\ server \in {[DefaultServer EXCEPT !.tree = t] : t \in {BareTree, HeadTree}}
  /\ srvAtoms = DesktopAtoms

WorkareaInit == init_x11(AbsentCard, AbsentCard, AbsentNames)

WorkareaUpdate == UpdateWorkarea

WorkareaInitWindow ==
  \E own \in BOOLEAN :
    x11_init_window(own, own, "NORMAL", {}, AbsentList, AbsentCard)

\* The host reads another head setting.
HostSetHead ==
  \E i \in HeadIndexes :
    /\ i # cfg.head_index
    /\ cfg' = [cfg EXCEPT !.head_index = i]
    /\ last' = LogCall("HostSetHead")
    /\ UNCHANGED <<sessionVars, desktopVars, build, srvAtoms, server, windowVars,
                   workarea, reqs>>

\* The heads of the server change.
ServerSetXinerama ==
  \E x \in XineramaConfigs :
    /\ x # server.xinerama
    /\ server' = [server EXCEPT !.xinerama = x]
    /\ last' = LogCall("ServerSetXinerama")
    /\ UNCHANGED <<sessionVars, desktopVars, build, srvAtoms, cfg, windowVars,
                   workarea, reqs>>

NextWorkarea ==
  \/ WorkareaInit
  \/ WorkareaUpdate
  \/ WorkareaInitWindow
  \/ HostSetHead
  \/ ServerSetXinerama

SpecWorkarea == InitWorkarea /\ [][NextWorkarea]_vars

\* ------------------------------------------------------------------------
\* Specification of the virtual-root selection
\* ------------------------------------------------------------------------
InitVRoot ==
  /\ InitProgram
  /\ build = DefaultBuild
  /\ cfg = DefaultCfg
  /\ server = DefaultServer
  /\ srvAtoms \in {DesktopAtoms, DesktopAtoms \cup {A_VROOTS}}

VRootInit == init_x11(server.curdesk, AbsentCard, AbsentNames)

VRootInitWindow ==
  \E own \in BOOLEAN :
    x11_init_window(own, own, "NORMAL", {}, server.vroots, server.curdesk)

\* The window manager publishes its virtual roots and current desktop.
ServerSetVRoots ==
  \E rv \in VRootLists, rc \in CurrentDesktops :
    /\ <<rv, rc>> # <<server.vroots, server.curdesk>>
    /\ server' = [server EXCEPT !.vroots = rv, !.curdesk = rc]
    /\ last' = LogCall("ServerSetVRoots")
    /\ UNCHANGED <<sessionVars, desktopVars, build, srvAtoms, cfg, windowVars,
                   workarea, reqs>>

NextVRoot ==
  \/ VRootInit
  \/ VRootInitWindow
  \/ ServerSetVRoots

SpecVRoot == InitVRoot /\ [][NextVRoot]_vars

\* The last call was update_x11_workarea, alone or at the end of init_x11.
WorkareaUpdated == last.op \in {"update_x11_workarea", "init_x11"}

XineramaActive ==
  build.BUILD_XINERAMA /\ server.xinerama.present /\ server.xinerama.active

NumHeads == IF server.xinerama.null THEN 0 ELSE Len(server.xinerama.heads)

Warnings == {i \in 1 .. Len(reqs) : reqs[i].req = "NORM_ERR"}

\* C12: with the multi-head extension active and a head index that is
\* negative or not below the number of heads, update_x11_workarea leaves
\* the full-display rectangle and logs exactly one warning.
C12_BadHeadFullDisplayOneWarning ==
  (WorkareaUpdated /\ XineramaActive
     /\ (cfg.head_index < 0 \/ cfg.head_index >= NumHeads)) =>
    /\ workarea = Rect(0, 0, DisplayWidth, DisplayHeight)
    /\ Cardinality(Warnings) = 1

\* The index 2 is past the two heads: full display, one warning.
C12_Witness ==
  /\ last.op = "update_x11_workarea"
  /\ XineramaActive /\ NumHeads = 2 /\ cfg.head_index = 2
  /\ workarea = Rect(0, 0, DisplayWidth, DisplayHeight)
  /\ Len(reqs) = 1

\* C13: with a valid head index the workarea has a non-negative position
\* and size and lies within the display.
C13_WorkareaWithinDisplay ==
  (WorkareaUpdated /\ XineramaActive
     /\ cfg.head_index >= 0 /\ cfg.head_index < NumHeads) =>
    /\ workarea.x >= 0 /\ workarea.y >= 0 /\ workarea.w >= 0 /\ workarea.h >= 0
    /\ workarea.x + workarea.w <= DisplayWidth
    /\ workarea.y + workarea.h <= DisplayHeight

XineramaUnused ==
  build.BUILD_XINERAMA /\ (~server.xinerama.present \/ ~server.xinerama.active)

\* C14 as stated: with the extension absent or inactive the workarea is
\* the full display and a warning is logged.
C14_UnusedFullDisplayWarning ==
  (WorkareaUpdated /\ XineramaUnused) =>
    /\ workarea = Rect(0, 0, DisplayWidth, DisplayHeight)
    /\ Warnings # {}

\* C14 as amended: with the extension absent or inactive the workarea is
\* the full display and nothing is logged.
C14_UnusedFullDisplaySilent ==
  (WorkareaUpdated /\ XineramaUnused) =>
    /\ workarea = Rect(0, 0, DisplayWidth, DisplayHeight)
    /\ reqs = <<>>

\* The extension is present and inactive, and the call left the full
\* display.
C14_Witness ==
  /\ last.op = "update_x11_workarea"
  /\ server.xinerama.present /\ ~server.xinerama.active
  /\ workarea = Rect(0, 0, DisplayWidth, DisplayHeight)
  /\ reqs = <<>>

VRootsPublished ==
  /\ A_VROOTS \in srvAtoms
  /\ server.vroots.status = 0 /\ server.vroots.actual_format = 32
  /\ server.vroots.data # <<>>

\* C16: x11_init_window takes as root the true root when no virtual-root
\* list is published, and the entry at the current-desktop index when a
\* non-empty list is published and the index is inside it.
C16_VirtualRootSelected ==
  last.op = "x11_init_window" =>
    /\ ~VRootsPublished => window.root = TrueRoot
    /\ (VRootsPublished /\ CardReplyOk(server.curdesk)
          /\ server.curdesk.value < Len(server.vroots.data))
         => window.root = server.vroots.data[server.curdesk.value + 1]

\* ------------------------------------------------------------------------
\* Window types
\* ------------------------------------------------------------------------
OwnCall == last.op = "x11_init_window" /\ last.arg = 1

RequestsOf(name) == {i \in 1 .. Len(reqs) : reqs[i].req = name}

\* The properties through which a window negotiates with the window
\* manager.
ManagerProps ==
  {"_NET_WM_WINDOW_TYPE", "_NET_WM_STATE", "_WIN_LAYER", "_NET_WM_DESKTOP",
   "_MOTIF_WM_HINTS", "WM_HINTS"}

\* C17: an own window of type override is created once, as an
\* override-redirect child of the desktop window, is lowered before it is
\* mapped and gets none of the window-manager properties, whatever the
\* hints; an own window of another type is created as a child of the root.
C17_OverrideUnmanaged ==
  OwnCall =>
    /\ Cardinality(RequestsOf("XCreateWindow")) = 1
    /\ \A c \in RequestsOf("XCreateWindow") :
         IF last.type = "OVERRIDE"
         THEN /\ reqs[c].data[1] = window.desktop
              /\ reqs[c].data[6] = 1
              /\ \E l \in RequestsOf("XLowerWindow") :
                   /\ c < l
                   /\ \A m \in RequestsOf("XMapWindow") : l < m
              /\ RequestsOf("XMapWindow") # {}
              /\ \A i \in RequestsOf("XChangeProperty") :
                   reqs[i].prop \notin ManagerProps
         ELSE reqs[c].data[1] = window.root

\* An override window was created with every hint set, under a desktop
\* window that is not the root.
C17_Witness ==
  /\ OwnCall /\ last.type = "OVERRIDE" /\ last.hints = Hints
  /\ window.desktop # window.root
  /\ \E c \in RequestsOf("XCreateWindow") : reqs[c].data[1] = window.desktop

\* ------------------------------------------------------------------------
\* Specification of the window position and the input backends
\* ------------------------------------------------------------------------
InitInput ==
  /\ InitProgram
  /\ build \in {[DefaultBuild EXCEPT !.BUILD_XINPUT = x, !.BUILD_MOUSE_EVENTS = m] :
                  x \in BOOLEAN, m \in BOOLEAN}
  /\ cfg = DefaultCfg
  /\ server \in {[DefaultServer EXCEPT !.xi = xi] : xi \in {"ok", "old", "absent"}}
  /\ srvAtoms = DesktopAtoms

InputInit == init_x11(AbsentCard, AbsentCard, AbsentNames)

\* The host stores the position and size asked for in the settings.
InputConfigure ==
  \E g \in {Rect(0, 0, 1, 1), Rect(1, 1, 1, 1)} :
    g # window.geometry /\ HostSetGeometry(g)

InputInitWindow ==
  \E type \in WindowTypes :
    x11_init_window(TRUE, TRUE, type, {}, AbsentList, AbsentCard)

InputInitDesktop ==
  x11_init_window(FALSE, FALSE, "NORMAL", {}, AbsentList, AbsentCard)

NextInput ==
  \/ InputInit
  \/ InputConfigure
  \/ InputInitWindow
  \/ InputInitDesktop
  \/ destroy_window

SpecInput == InitInput /\ [][NextInput]_vars

\* C18: an own window of type dock or panel is created at the origin, and
\* the overlay position is the origin afterwards.
C18_DockPanelAtOrigin ==
  (OwnCall /\ last.type \in {"DOCK", "PANEL"}) =>
    /\ window.geometry.x = 0 /\ window.geometry.y = 0
    /\ \A c \in RequestsOf("XCreateWindow") :
         reqs[c].data[2] = 0 /\ reqs[c].data[3] = 0

XInputSetUp == build.BUILD_XINPUT /\ server.xi = "ok"

PointerMasks ==
  {"ButtonPress", "ButtonRelease", "PointerMotion", "EnterWindow", "LeaveWindow"}

InitWindowDone == last.op = "x11_init_window" /\ window.root # None

\* C19: after x11_init_window, if the XInput backend was set up the core
\* mask selected on the overlay window has no button, motion, enter or
\* leave bit; if it was not, no XInput events were selected on any window
\* and the device cache was not filled.
C19_BackendsExclusive ==
  InitWindowDone =>
    /\ \A i \in RequestsOf("XSelectInput") :
         reqs[i].mask = window.event_mask /\ reqs[i].win = window.window
    /\ Cardinality(RequestsOf("XSelectInput")) = 1
    /\ XInputSetUp =>
         /\ window.event_mask \cap PointerMasks = {}
         /\ \E i \in RequestsOf("XISelectEvents") : reqs[i].win = window.root
    /\ ~XInputSetUp =>
         /\ RequestsOf("XISelectEvents") = {}
         /\ RequestsOf("device_info::from_xi_id") = {}

\* XInput was set up for an own window in a build with mouse events: the
\* core mask has the three base bits only.
C19_Witness ==
  /\ InitWindowDone /\ OwnCall /\ last.type = "NORMAL"
  /\ XInputSetUp /\ build.BUILD_MOUSE_EVENTS
  /\ window.event_mask = {"Exposure", "PropertyChange", "StructureNotify"}
  /\ Cardinality(RequestsOf("XISelectEvents")) = 2

\* C20: when the XInput backend is not set up the core mask is exposure
\* and property-change, plus structure-notify and button press/release for
\* an own window, plus pointer-motion, enter and leave exactly when mouse
\* events are built in and the window is an own window that is not of the
\* desktop type.
C20_FallbackMask ==
  (InitWindowDone /\ ~XInputSetUp) =>
    window.event_mask =
      {"Exposure", "PropertyChange"}
        \cup (IF last.okc
              THEN {"StructureNotify", "ButtonPress", "ButtonRelease"} ELSE {})
        \cup (IF build.BUILD_MOUSE_EVENTS /\ last.arg = 1 /\ last.type # "DESKTOP"
              THEN {"PointerMotion", "EnterWindow", "LeaveWindow"} ELSE {})

\* ------------------------------------------------------------------------
\* Window queries
\* ------------------------------------------------------------------------
\* A root whose children 2 and 3 are top-level windows; 3 has the child 4.
ClientTree ==
  (TrueRoot :> WinAttr(<<2, 3>>, TRUE, FALSE, DisplayWidth, DisplayHeight))
  @@ (2 :> WinAttr(<<>>, TRUE, FALSE, 1, 1))
  @@ (3 :> WinAttr(<<4>>, TRUE, FALSE, 1, 1))
  @@ (4 :> WinAttr(<<>>, TRUE, FALSE, 1, 1))

\* The window lists a window manager publishes: none, or 32-bit items.
PublishedLists ==
  {AbsentList, WindowListReply(0, 32, <<3, 2>>), WindowListReply(0, 32, <<2>>)}

InitQuery ==
  /\ InitProgram
  /\ build = DefaultBuild
  /\ cfg = DefaultCfg
  /\ server \in {[DefaultServer EXCEPT !.tree = ClientTree, !.wmhints = h] :
                   h \in {{}, {2}, {2, 4}, {TrueRoot, 3}}}
  /\ srvAtoms \in SUBSET {A_STACKING, A_CLIENTS}

QueryInit == init_x11(AbsentCard, AbsentCard, AbsentNames)

\* The window manager publishes, replaces or withdraws its lists.
ServerSetLists ==
  \E rs \in PublishedLists, rl \in PublishedLists :
    /\ <<rs, rl>> # <<server.stacking, server.clients>>
    /\ server' = [server EXCEPT !.stacking = rs, !.clients = rl]
    /\ last' = LogCall("ServerSetLists")
    /\ UNCHANGED <<sessionVars, desktopVars, build, srvAtoms, cfg, windowVars,
                   workarea, reqs>>

QueryCall == \E eager \in BOOLEAN : QueryWindows(eager)

NextQuery == QueryInit \/ ServerSetLists \/ QueryCall

SpecQuery == InitQuery /\ [][NextQuery]_vars

\* The list is published: its atom exists and the property has items.
ListPublished(atom, r) == atom \in srvAtoms /\ r.status = 0 /\ Len(r.data) > 0

\* C21: query_x11_windows returns the stacking list when it is published
\* and non-empty, else the client list when that is, else, only when eager,
\* the windows with WM hints found by traversing the tree; with neither
\* list and eager false it returns no window and queries no tree.
C21_QueryPrefersPublishedLists ==
  last.op = "query_x11_windows" =>
    LET stacking == ListPublished(A_STACKING, server.stacking)
        clients == ListPublished(A_CLIENTS, server.clients)
    IN /\ stacking => last.below = server.stacking.data
       /\ (~stacking /\ clients) => last.below = server.clients.data
       /\ (~stacking /\ ~clients /\ last.okc) =>
            Range(last.below) = server.wmhints \cap DOMAIN server.tree
       /\ (~stacking /\ ~clients /\ ~last.okc) =>
            last.below = <<>> /\ reqs = <<>>

\* ------------------------------------------------------------------------
\* Forwarding of core events
\* ------------------------------------------------------------------------
CoreForwarded == last.op = "propagate_x11_event" /\ last.ev.type \in CoreInputTypes

\* C22: for every core event propagate_x11_event forwards, the pointer
\* grab is released before the send, there is exactly one send, to the
\* resolved target and with the mask ev_to_mask gives for the type and
\* button, and the focus goes to the target exactly for a button press.
C22_CoreForwardSequence ==
  CoreForwarded =>
    LET target == CoreTarget(last.below)
        button == IF last.ev.type = "ButtonRelease" THEN last.ev.button ELSE 0
    IN /\ Cardinality(SendRequests) = 1
       /\ RequestsOf("XUngrabPointer") # {}
       /\ \A u \in RequestsOf("XUngrabPointer"), i \in SendRequests : u < i
       /\ \A i \in SendRequests :
            /\ reqs[i].win = target
            /\ reqs[i].win = last.out.window
            /\ reqs[i].mask = ev_to_mask(last.ev.type, button)
       /\ (RequestsOf("XSetInputFocus") # {}) <=> (last.ev.type = "ButtonPress")
       /\ \A f \in RequestsOf("XSetInputFocus") : reqs[f].win = target

\* A release of button 1 over an overlay with a window of its own was
\* forwarded to the desktop window with the release and button-1-motion
\* mask, after the grab was released and without a change of focus.
C22_Witness ==
  /\ CoreForwarded /\ last.ev.type = "ButtonRelease" /\ last.ev.button = 1
  /\ window.window >= FirstXid
  /\ Len(reqs) = 2
  /\ reqs[1].req = "XUngrabPointer"
  /\ reqs[2].req = "XSendEvent" /\ reqs[2].win = window.desktop
  /\ reqs[2].mask = {"ButtonRelease", "Button1Motion"}

\* The XInput path forwarded events: by a direct call, or delegated.
XInputForwarded ==
  /\ \/ last.op = "propagate_xinput_event"
     \/ last.op = "propagate_x11_event" /\ XInputDelegated(last)
  /\ SendRequests # {}

\* C23: for the same pointer position and the same windows the XInput
\* path sends to the target the core path resolves, also when no other
\* window is found at the position.
C23_SameTargetBothPaths ==
  XInputForwarded =>
    /\ XInputTarget(last.below) = CoreTarget(last.below)
    /\ \A i \in SendRequests : reqs[i].win = CoreTarget(last.below)

\* ------------------------------------------------------------------------
\* Descent to the desktop window
\* ------------------------------------------------------------------------
MaxDepth == 12

DecoyKinds == {"small", "hidden", "override", "twin"}

\* A chain of d full-size windows below the root, the window of level k
\* being 2k.  Each has a sibling 2k + 1: a second full-size window after
\* it ("twin"), or before it a window that is too small, not viewable or
\* override-redirect.
ChainKids(k, kind) == IF kind = "twin" THEN <<2 * k, 2 * k + 1>> ELSE <<2 * k + 1, 2 * k>>

ChainTree(d, kind) ==
  [n \in 1 .. 2 * d + 1 |->
     IF n = TrueRoot
     THEN WinAttr(IF d >= 1 THEN ChainKids(1, kind) ELSE <<>>, TRUE, FALSE,
                  DisplayWidth, DisplayHeight)
     ELSE IF n % 2 = 0
     THEN WinAttr(IF n \div 2 < d THEN ChainKids(n \div 2 + 1, kind) ELSE <<>>,
                  TRUE, FALSE, DisplayWidth, DisplayHeight)
     ELSE CASE kind = "small" -> WinAttr(<<>>, TRUE, FALSE, 1, 1)
            [] kind = "hidden" -> WinAttr(<<>>, FALSE, FALSE, DisplayWidth, DisplayHeight)
            [] kind = "override" -> WinAttr(<<>>, TRUE, TRUE, DisplayWidth, DisplayHeight)
            [] OTHER -> WinAttr(<<>>, TRUE, FALSE, DisplayWidth, DisplayHeight)]

InitDescent ==
  /\ InitProgram
  /\ build = DefaultBuild
  /\ cfg = DefaultCfg
  /\ server \in {[DefaultServer EXCEPT !.tree = ChainTree(d, kind)] :
                   d \in 0 .. MaxDepth, kind \in DecoyKinds}
  /\ srvAtoms = {}

DescentInit == init_x11(AbsentCard, AbsentCard, AbsentNames)

DescentCall ==
  \E win \in {TrueRoot, 2, 3, 6}, size \in {<<DisplayWidth, DisplayHeight>>, <<1, 1>>} :
    FindDesktopWindowImpl(win, size[1], size[2])

NextDescent == DescentInit \/ DescentCall

SpecDescent == InitDescent /\ [][NextDescent]_vars

\* The children of win that are viewable, not override-redirect and w by h,
\* as positions in the list of children.
MatchingKids(win, w, h) ==
  {j \in 1 .. Len(server.tree[win].children) :
     LET a == server.tree[server.tree[win].children[j]]
     IN a.viewable /\ ~a.override_redirect /\ a.w = w /\ a.h = h}

FirstMatching(win, w, h) ==
  server.tree[win].children[
    CHOOSE j \in MatchingKids(win, w, h) : \A k \in MatchingKids(win, w, h) : j <= k]

\* The window n steps down from win, each step to the first matching child
\* and none where there is no such child.
RECURSIVE Descend(_, _, _, _)
Descend(win, w, h, n) ==
  IF n = 0 THEN win
  ELSE LET p == Descend(win, w, h, n - 1)
       IN IF MatchingKids(p, w, h) = {} THEN p ELSE FirstMatching(p, w, h)

\* C24: find_desktop_window_impl descends at most ten levels however deep
\* the tree, at each level to the first child that is viewable, not
\* override-redirect and of the requested size, and returns the window it
\* started from when no child matches.
C24_DescentBounded ==
  last.op = "find_desktop_window_impl" =>
    LET win == last.below[1]
        w == last.below[2]
        h == last.below[3]
    IN /\ last.arg = Descend(win, w, h, 10)
       /\ MatchingKids(win, w, h) = {} => last.arg = win
       /\ \E n \in 0 .. 10 :
            /\ last.arg = Descend(win, w, h, n)
            /\ n < 10 => MatchingKids(last.arg, w, h) = {}

\* In a chain of twelve full-size windows, each after a hidden sibling, the
\* search from the root stopped at the window of the tenth level, which
\* has a matching child.
C24_Witness ==
  /\ last.op = "find_desktop_window_impl"
  /\ last.below = <<TrueRoot, DisplayWidth, DisplayHeight>>
  /\ Len(server.tree) >= 2 * 12 + 1
  /\ ~server.tree[3].viewable
  /\ last.arg = 20
  /\ MatchingKids(20, DisplayWidth, DisplayHeight) # {}

\* ------------------------------------------------------------------------
\* Edge selection of set_struts
\* ------------------------------------------------------------------------
\* The 12-value writes of the last call.
PartialWrites == {i \in 1 .. Len(reqs) : reqs[i].prop = "_NET_WM_STRUT_PARTIAL"}
LegacyWrites == {i \in 1 .. Len(reqs) : reqs[i].prop = "_NET_WM_STRUT"}

\* The slots of an edge: its size, start and end.
EdgeSlots(e) == {e, 3 + 2 * e, 4 + 2 * e}

SupportsCutout ==
  build.ENABLE_RUNTIME_TWEAKS /\ cfg.wm \in {"compiz", "fluxbox", "i3", "kwin"}

\* C25: for a window manager without cutout support set_struts reserves
\* one edge: left or right when the window is narrower than tall, else top
\* or bottom; left when the right-edge x is below display_width minus the
\* left x, else right; top when the bottom-edge y is below display_height
\* minus the top y, else bottom.
C25_CompliantEdgeByAspect ==
  (last.op = "set_struts" /\ ~SupportsCutout) =>
    LET g == window.geometry
        edge == IF g.w < g.h
                THEN (IF g.x + g.w < DisplayWidth - g.x THEN 1 ELSE 2)
                ELSE (IF g.y + g.h < DisplayHeight - g.y THEN 3 ELSE 4)
    IN /\ PartialWrites # {}
       /\ \A i \in PartialWrites :
            /\ \A k \in 1 .. StrutCount : k \notin EdgeSlots(edge) => reqs[i].data[k] = 0
            /\ reqs[i].data[edge] =
                 CASE edge = 1 -> Clamp(g.x + g.w, 0, DisplayWidth)
                   [] edge = 2 -> DisplayWidth - Clamp(g.x, 0, DisplayWidth)
                   [] edge = 3 -> Clamp(g.y + g.h, 0, DisplayHeight)
                   [] OTHER -> DisplayHeight - Clamp(g.y, 0, DisplayHeight)

\* A square window in the lower half of the display got a bottom strut.
C25_Witness ==
  /\ last.op = "set_struts" /\ ~SupportsCutout
  /\ window.geometry = Rect(0, 1, 1, 1)
  /\ \E i \in PartialWrites : reqs[i].data[4] = 1 /\ reqs[i].data[12] = 1

\* C26: for a window manager with cutout support the preferred axis is
\* fixed by the first call that reaches the decision: no later step
\* changes it, and a corner alignment reserves on that axis whatever the
\* window's shape has become.
C26_AxisDecidedOnce ==
  [][/\ statics.is_wide_window # "unset" =>
          statics'.is_wide_window = statics.is_wide_window
     /\ (last'.op = "set_struts" /\ statics.is_wide_window # "unset"
          /\ cfg.align \in {"TOP_LEFT", "TOP_RIGHT", "BOTTOM_LEFT", "BOTTOM_RIGHT"}) =>
          \A i \in 1 .. Len(reqs') :
            reqs'[i].prop = "_NET_WM_STRUT_PARTIAL" =>
              IF statics.is_wide_window = "wide"
              THEN reqs'[i].data[1] = 0 /\ reqs'[i].data[2] = 0
              ELSE reqs'[i].data[3] = 0 /\ reqs'[i].data[4] = 0]_vars

\* The axis was decided for a tall window; the window is now wider than
\* tall and set_struts still reserved the left edge.
C26_Witness ==
  /\ last.op = "set_struts" /\ SupportsCutout /\ cfg.align = "TOP_LEFT"
  /\ statics.is_wide_window = "thin"
  /\ window.geometry.w > window.geometry.h
  /\ \E i \in PartialWrites : reqs[i].data[1] > 0 /\ reqs[i].data[3] = 0

\* C29: when set_struts writes, at most one of the four edge sizes is not
\* zero, every start and end slot of another edge than the selected one is
\* zero, and the 4-value write has the first four values of the 12-value
\* write.
C29_SingleEdgeWritten ==
  last.op = "set_struts" =>
    /\ \A i \in PartialWrites :
         /\ Len(reqs[i].data) = StrutCount
         /\ \E e \in 1 .. 4 :
              \A k \in 1 .. StrutCount : k \notin EdgeSlots(e) => reqs[i].data[k] = 0
         /\ \A e \in 1 .. 4 :
              reqs[i].data[e] # 0 =>
                \A k \in 1 .. StrutCount : k \notin EdgeSlots(e) => reqs[i].data[k] = 0
         /\ \E j \in LegacyWrites : j < i
         /\ \A j \in LegacyWrites : reqs[j].data = SubSeq(reqs[i].data, 1, 4)
    /\ \A j \in LegacyWrites : Len(reqs[j].data) = 4 /\ PartialWrites # {}

\* A bottom strut of the whole display height was written with its
\* horizontal range, the legacy write being <<0, 0, 0, 2>>.
C29_Witness ==
  /\ last.op = "set_struts"
  /\ \E i \in PartialWrites :
       /\ reqs[i].data[4] = DisplayHeight
       /\ reqs[i].data[11] < reqs[i].data[12]
  /\ \E j \in LegacyWrites : reqs[j].data = <<0, 0, 0, DisplayHeight>>

\* ------------------------------------------------------------------------
\* Teardown of the overlay window
\* ------------------------------------------------------------------------
\* C27: destroy_window frees the graphics context and the drawing handle
\* when there is one, zeroes every field of the window record, makes no
\* request that destroys the server window, and leaves the display
\* connection, the workarea and the desktop state as they were.
C27_DestroyReleasesAndZeroes ==
  [][last'.op = "destroy_window" =>
       /\ window.gc # 0 =>
            \E i \in 1 .. Len(reqs') :
              reqs'[i].req = "XFreeGC" /\ reqs'[i].win = window.gc
       /\ window.xftdraw # 0 =>
            \E i \in 1 .. Len(reqs') :
              reqs'[i].req = "XftDrawDestroy" /\ reqs'[i].win = window.xftdraw
       /\ \A i \in 1 .. Len(reqs') :
            /\ reqs'[i].req \in {"XFreeGC", "XftDrawDestroy"}
            /\ reqs'[i].req = "XFreeGC" => window.gc # 0
            /\ reqs'[i].req = "XftDrawDestroy" => window.xftdraw # 0
       /\ window' = ZeroWindow
       /\ display' = display /\ openDisplays' = openDisplays
       /\ workarea' = workarea
       /\ desktop' = desktop]_vars

\* destroy_window ran on an open display for a created window that had a
\* graphics context: the only request freed it and the record is zero.
C27_Witness ==
  /\ last.op = "destroy_window"
  /\ display # None /\ display \in openDisplays
  /\ created > 0
  /\ Len(reqs) = 1 /\ reqs[1].req = "XFreeGC"
  /\ window = ZeroWindow

\* ------------------------------------------------------------------------
\* Cardinal properties of the desktop cache
\* ------------------------------------------------------------------------
InitCardinal ==
  /\ InitProgram
  /\ build = DefaultBuild
  /\ cfg = DefaultCfg
  /\ server = DefaultServer
  /\ srvAtoms = DesktopAtoms

\* The window manager sets the current-desktop and the desktop-count
\* properties of the root.
ServerSetCardinals ==
  \E rc \in GoodCardReplies \cup {AbsentCard}, rn \in GoodCardReplies \cup {AbsentCard} :
    /\ <<rc, rn>> # <<server.curdesk, server.numdesk>>
    /\ server' = [server EXCEPT !.curdesk = rc, !.numdesk = rn]
    /\ last' = LogCall("ServerSetCardinals")
    /\ UNCHANGED <<sessionVars, desktopVars, build, srvAtoms, cfg, windowVars,
                   workarea, reqs>>

CardinalInit == init_x11(server.curdesk, server.numdesk, AbsentNames)

CardinalNotify ==
  \E atom \in {A_CURRENT, A_NUMBER} :
    get_x11_desktop_info(atom, server.curdesk, server.numdesk, AbsentNames)

NextCardinal == CardinalInit \/ ServerSetCardinals \/ CardinalNotify

SpecCardinal == InitCardinal /\ [][NextCardinal]_vars

\* C28: for every 32-bit cardinal v of the current-desktop property the
\* cached index is v + 1, and for every count n of the desktop-count
\* property the cached count is n.
C28_CardinalsCachedExactly ==
  /\ ((last.op = "init_x11" \/ Notified(last, A_CURRENT)) /\ last.okc) =>
       desktop.current = server.curdesk.value + 1
  /\ ((last.op = "init_x11" \/ Notified(last, A_NUMBER)) /\ last.okn) =>
       desktop.number = server.numdesk.value

\* C30: init_x11 called again on an open display keeps the last good
\* desktop state: a field whose property is then absent or malformed keeps
\* the value it had.
C30_ReinitKeepsLastGood ==
  [][(last'.op = "init_x11" /\ display # None) =>
       /\ ~last'.okc => desktop'.current = desktop.current
       /\ ~last'.okn => desktop'.number = desktop.number
       /\ ~last'.oks => desktop'.all_names = desktop.all_names]_vars

====
